---- MODULE Spec2Model ----
(***************************************************************************)
(* State-machine model of AoCProcessor                                     *)
(* (openage/convert/processor/aoc/processor.py): the conversion pipeline   *)
(* that sanitizes effect bundles, builds unit and building lines, the      *)
(* auxiliary groups and the tech groups, and links them.                   *)
(*                                                                         *)
(* Python dicts are modelled as insertion-ordered sequences of             *)
(* <<key, value>> pairs, Python lists as sequences.  Group objects are     *)
(* identified by <<creator tag, id>>; the ordered members of a group are   *)
(* kept in the function "line".                                            *)
(***************************************************************************)
EXTENDS Integers, Sequences, FiniteSets, TLC

----------------------------------------------------------------------------
(* Python dict / list helpers *)

DictKeys(d) == {d[i][1] : i \in DOMAIN d}

DictHas(d, k) == \E i \in DOMAIN d : d[i][1] = k

DictGet(d, k) == d[CHOOSE i \in DOMAIN d : d[i][1] = k][2]

\* dict.update({k: v}): an existing key keeps its position
DictUpdate(d, k, v) ==
    IF DictHas(d, k)
    THEN [i \in DOMAIN d |-> IF d[i][1] = k THEN <<k, v>> ELSE d[i]]
    ELSE Append(d, <<k, v>>)

DictValues(d) == [i \in DOMAIN d |-> d[i][2]]

RECURSIVE DictUpdateAll(_, _, _)
\* dict.update(other), entries of other from position i on
DictUpdateAll(d, other, i) ==
    IF i > Len(other) THEN d
    ELSE DictUpdateAll(DictUpdate(d, other[i][1], other[i][2]), other, i + 1)

Contains(l, x) == \E i \in DOMAIN l : l[i] = x

IndexOf(l, x) == CHOOSE i \in DOMAIN l : l[i] = x /\ \A j \in 1..(i - 1) : l[j] # x

\* list.insert(pos, x) with pos counted from 0
ListInsert(l, pos, x) ==
    [i \in 1..(Len(l) + 1) |->
        IF i <= pos THEN l[i] ELSE IF i = pos + 1 THEN x ELSE l[i - 1]]

Count(l, x) == Cardinality({i \in DOMAIN l : l[i] = x})

SeqToSet(l) == {l[i] : i \in DOMAIN l}

\* attribute of an object that has none yet: the empty list
ListOf(f, o) == IF o \in DOMAIN f THEN f[o] ELSE <<>>

\* x & bit, for a single-bit mask
BitSet(x, bit) == (x \div bit) % 2 = 1

----------------------------------------------------------------------------
(* Program constants *)

\* previous_building_id = None / add_unit(after=None)
None == -1

\* other_connection tags of a connection record
ConnAge == 0
ConnBuilding == 1
ConnUnit == 2
ConnTech == 3

\* line_mode values
LineModeAge == 0
LineModeFirst == 2
LineModeMid == 3

\* effect kinds
EffectUnlock == 2
EffectUpgrade == 3
EffectDisableTech == 102

MonkLineId == 65
MonkSwitchUnitId == 286
VillagerGroupId == 118

\* wildlife units that are in no unit connection
ExtraUnits == <<48, 65, 594, 833>>

\* GenieUnitTaskGroup.male_line_id / female_line_id
TaskGroupLineId(task_group_id) == IF task_group_id = 1 THEN 83 ELSE 293

\* AMBIENT_GROUP_LOOKUPS keys and VARIANT_GROUP_LOOKUPS (group id, members)
AMBIENT_GROUP_LOOKUPS == <<59, 285>>
VARIANT_GROUP_LOOKUPS == << <<69, <<69, 455>> >> >>

SiegeClasses == {13, 51, 54, 55}

\* GenieGarrisonMode.<mode>.value: the creatable types a mode accepts
GarrisonModeValue(mode) ==
    CASE mode = "NATURAL" -> {1, 2, 3, 5, 6}
      [] mode = "UNIT_GARRISON" -> {1, 2, 5}
      [] mode = "SELF_PRODUCED" -> {1, 2, 3, 5, 6}
      [] mode = "MONK" -> {4}
      [] OTHER -> {}

----------------------------------------------------------------------------
(* Raw records and the bounded input families *)

\* bounds of the model
MaxEffects == 3
MaxConn == 3
MaxTechConn == 2
MaxCommands == 2

UnitConnIds == {1, 2, 3}
BuildingIds == {40, 41, 42}
\* a male and a female villager (task groups 1 and 2), and the relic
VillagerUnitIds == <<83, 293>>
RelicIds == {285}
UnitIds == UnitConnIds \cup BuildingIds \cup SeqToSet(ExtraUnits)
           \cup SeqToSet(VillagerUnitIds)
           \cup SeqToSet(AMBIENT_GROUP_LOOKUPS) \cup {69, 455}
TechIds == 0..3
BundleIds == 0..3
CivIds == 0..2

DefaultUnit ==
    [task_group |-> 0, transform_unit_id |-> -1, stack_unit_id |-> -1,
     head_unit_id |-> -1, research_id |-> -1, creatable_type |-> 0,
     trait |-> 0, garrison_type |-> 0, class_id |-> 0,
     train_location_id |-> -1, garrison_mode |-> "NONE",
     drop_site0 |-> -1, drop_site1 |-> -1, unit_commands |-> <<>>]

\* one entry of a unit's unit_commands
Command(type, resource_in, resource_out, unit_id) ==
    [type |-> type, resource_in |-> resource_in, resource_out |-> resource_out,
     unit_id |-> unit_id]

BaseUnits ==
    [u \in UnitIds |->
        CASE u = VillagerUnitIds[1] -> [DefaultUnit EXCEPT !.task_group = 1, !.creatable_type = 1]
          [] u = VillagerUnitIds[2] -> [DefaultUnit EXCEPT !.task_group = 2, !.creatable_type = 1]
          [] u \in RelicIds -> [DefaultUnit EXCEPT !.creatable_type = 4]
          [] u \in UnitConnIds -> [DefaultUnit EXCEPT !.creatable_type = 2]
          [] u \in BuildingIds -> [DefaultUnit EXCEPT !.creatable_type = 3]
          [] OTHER -> DefaultUnit]

Effect(type_id, attr_a, attr_b, attr_d) ==
    [type_id |-> type_id, attr_a |-> attr_a, attr_b |-> attr_b, attr_d |-> attr_d]

\* the effects dict built by _extract_genie_effect_bundles: keys 0..n-1
RawEffects(effects) == [i \in DOMAIN effects |-> <<i - 1, effects[i]>>]

RawBundle(effects) == [effects |-> RawEffects(effects), sanitized |-> FALSE]

DefaultTech ==
    [tech_type |-> 0, tech_effect_id |-> 0, civilization_id |-> 0,
     research_location_id |-> 0, full_tech_mode |-> FALSE]

UnitConnection(id, vertical_line, line_mode, types, ids, required, enabling) ==
    [id |-> id, vertical_line |-> vertical_line, line_mode |-> line_mode,
     other_connections |-> types, other_connected_ids |-> ids,
     required_research |-> required, enabling_research |-> enabling]

BuildingConnection(id, types, ids) ==
    [id |-> id, other_connections |-> types, other_connected_ids |-> ids,
     enabling_research |-> -1]

TechConnection(id, buildings, line_mode, types, ids) ==
    [id |-> id, buildings |-> buildings, line_mode |-> line_mode,
     other_connections |-> types, other_connected_ids |-> ids]

\* A small consistent data set: militia line 5 = [1, 2], monk line 65 = [3],
\* tower 40 upgraded to 41 by tech 2, tech 0 the age-up to age 1.
BaseTechs ==
    [t \in TechIds |->
        CASE t = 0 -> [DefaultTech EXCEPT !.tech_type = 2, !.tech_effect_id = 0]
          [] t = 3 -> [DefaultTech EXCEPT !.tech_effect_id = 3, !.civilization_id = 1]
          [] OTHER -> [DefaultTech EXCEPT !.tech_effect_id = t]]

BaseBundles ==
    [b \in BundleIds |->
        CASE b = 0 -> RawBundle(<<Effect(3, 40, 42, -1)>>)
          [] b = 2 -> RawBundle(<<Effect(-1, 0, 0, 0), Effect(3, 40, 41, -1)>>)
          [] OTHER -> RawBundle(<<Effect(0, 1, 2, 3)>>)]

BaseUnitConnections ==
    << UnitConnection(1, 5, 2, <<>>, <<>>, -1, -1),
       UnitConnection(2, 5, 3, <<2>>, <<1>>, 1, -1),
       UnitConnection(3, 65, 2, <<>>, <<>>, -1, -1) >>

BaseBuildingConnections ==
    << BuildingConnection(40, <<>>, <<>>),
       BuildingConnection(41, <<3, 1>>, <<2, 40>>) >>

BaseTechConnections ==
    << TechConnection(0, <<>>, 0, <<0>>, <<1>>),
       TechConnection(1, <<>>, 3, <<>>, <<>>) >>

BaseScenario ==
    [units |-> BaseUnits, techs |-> BaseTechs, bundles |-> BaseBundles,
     uconns |-> BaseUnitConnections, bconns |-> BaseBuildingConnections,
     tconns |-> BaseTechConnections]

RECURSIVE SeqsUpTo(_, _)
\* all sequences over S of length at most n
SeqsUpTo(S, n) ==
    IF n = 0 THEN {<<>>}
    ELSE LET shorter == SeqsUpTo(S, n - 1)
         IN  shorter \cup {Append(s, x) : s \in {t \in shorter : Len(t) = n - 1}, x \in S}

\* sequences of distinct elements of S, of length 1..n
DistinctSeqs(S, n) ==
    {s \in SeqsUpTo(S, n) : Len(s) >= 1 /\ \A i, j \in DOMAIN s : i # j => s[i] # s[j]}

----------------------------------------------------------------------------
VARIABLES
    \* raw data (the reader's gamespec, extracted)
    raw_effect_bundles, genie_units, genie_techs, genie_effect_bundles,
    genie_civs, genie_terrains,
    unit_connections, building_connections, tech_connections,
    \* control
    pc, idx, error, executed,
    \* GenieObjectContainer
    pre_unit_lines, line, unit_lines, unit_lines_vertical_ref, building_lines,
    unit_ref, transform_groups, monk_groups, switch_unit_id, task_groups,
    villager_groups,
    villager_variants, ambient_groups, variant_groups, terrain_groups,
    tech_groups, age_upgrades, unit_unlocks, unit_upgrades, building_unlocks,
    building_upgrades, stat_upgrades, initiated_techs, civ_boni, civ_groups,
    creates, garrison_locations, garrison_entities,
    researches, civ_bonus_techs, unique_entities, unique_techs,
    accepts_resources, trading_lines

rawVars == <<raw_effect_bundles, genie_units, genie_techs, genie_civs,
             genie_terrains, unit_connections, building_connections,
             tech_connections>>
lineVars == <<pre_unit_lines, line, unit_lines, unit_lines_vertical_ref,
              building_lines, unit_ref, transform_groups, monk_groups,
              switch_unit_id>>
auxVars == <<task_groups, villager_groups, villager_variants, ambient_groups,
             variant_groups, terrain_groups>>
techVars == <<tech_groups, age_upgrades, unit_unlocks, unit_upgrades,
              building_unlocks, building_upgrades, stat_upgrades,
              initiated_techs, civ_boni>>
linkVars == <<creates, garrison_locations, garrison_entities, researches,
              civ_bonus_techs, unique_entities, unique_techs,
              accepts_resources, trading_lines>>
otherLinks == <<researches, civ_bonus_techs, unique_entities, unique_techs,
                accepts_resources, trading_lines>>
vars == <<rawVars, genie_effect_bundles, pc, idx, error, executed, lineVars, auxVars,
          techVars, civ_groups, linkVars>>

\* the state after _extract_*: raw records stored, every index empty
InitFrom(s) ==
    /\ raw_effect_bundles = s.bundles
    /\ genie_units = s.units
    /\ genie_techs = s.techs
    /\ genie_effect_bundles = s.bundles
    /\ genie_civs = CivIds
    /\ genie_terrains = <<TRUE, FALSE>>
    /\ unit_connections = s.uconns
    /\ building_connections = s.bconns
    /\ tech_connections = s.tconns
    /\ pc = "sanitize_effect_bundles"
    /\ idx = 1
    /\ error = <<>>
    /\ executed = <<>>
    /\ pre_unit_lines = <<>>
    /\ line = <<>>
    /\ unit_lines = <<>>
    /\ unit_lines_vertical_ref = <<>>
    /\ building_lines = <<>>
    /\ unit_ref = <<>>
    /\ transform_groups = <<>>
    /\ monk_groups = <<>>
    /\ switch_unit_id = <<>>
    /\ task_groups = <<>>
    /\ villager_groups = <<>>
    /\ villager_variants = <<>>
    /\ ambient_groups = <<>>
    /\ variant_groups = <<>>
    /\ terrain_groups = <<>>
    /\ tech_groups = <<>>
    /\ age_upgrades = <<>>
    /\ unit_unlocks = <<>>
    /\ unit_upgrades = <<>>
    /\ building_unlocks = <<>>
    /\ building_upgrades = <<>>
    /\ stat_upgrades = <<>>
    /\ initiated_techs = <<>>
    /\ civ_boni = <<>>
    /\ civ_groups = <<>>
    /\ creates = <<>>
    /\ garrison_locations = <<>>
    /\ garrison_entities = <<>>
    /\ researches = <<>>
    /\ civ_bonus_techs = <<>>
    /\ unique_entities = <<>>
    /\ unique_techs = <<>>
    /\ accepts_resources = <<>>
    /\ trading_lines = <<>>

----------------------------------------------------------------------------
(* Operations of the data format classes the processor calls *)

\* GenieEffectBundle.get_effects(): the effects in key order
GetEffects(bundle) == DictValues(bundle.effects)

\* GenieEffectBundle.get_effects(effect_type=t)
GetEffectsOfType(bundle, t) ==
    SelectSeq(GetEffects(bundle), LAMBDA e : e.type_id = t)

\* <group>.add_unit(unit, after=after) on the ordered members l of a group:
\* a member is added once; without a predecessor it becomes the head; with a
\* predecessor in the line it is put right after it, else at the end
AddUnit(l, unit_id, after) ==
    IF Contains(l, unit_id) THEN l
    ELSE IF after = None THEN ListInsert(l, 0, unit_id)
    ELSE IF Contains(l, after) THEN ListInsert(l, IndexOf(l, after), unit_id)
    ELSE Append(l, unit_id)

\* <group>.get_head_unit_id()
HeadUnitId(l) == l[1]

\* tech group objects: <kind>(tech_id, a, b).get_id() is tech_id
TechGroup(kind, tech_id, a, b) == [kind |-> kind, id |-> tech_id, a |-> a, b |-> b]

----------------------------------------------------------------------------
(* The calls of convert *)

\* the passes in the order _pre_processor, _processor and _post_processor
\* call them
Passes ==
    << "sanitize_effect_bundles", "create_unit_lines", "create_extra_unit_lines",
       "create_building_lines", "create_villager_groups", "create_ambient_groups",
       "create_variant_groups", "create_terrain_groups", "create_tech_groups",
       "create_civ_groups", "link_building_upgrades", "link_creatables",
       "link_researchables", "link_civ_uniques", "link_resources_to_dropsites",
       "link_garrison", "link_trade_posts", "pregen", "post_processor" >>

\* a call order with the tech classifier ahead of the line and group builders
PassAfterClassifyingFirst(pass) ==
    CASE pass = "sanitize_effect_bundles" -> "create_tech_groups"
      [] pass = "create_tech_groups" -> "create_unit_lines"
      [] pass = "create_terrain_groups" -> "create_civ_groups"
      [] pass = "post_processor" -> "done"
      [] OTHER -> Passes[IndexOf(Passes, pass) + 1]

\* where control goes when a pass returns: the next call, or the return of
\* convert with the modpacks
PassAfter(pass) ==
    IF pass = Passes[Len(Passes)] THEN "done"
    ELSE Passes[IndexOf(Passes, pass) + 1]

\* an exception that is handled around the pass: the run goes on with the
\* next call
AfterRaiseHandled(pass) == PassAfter(pass)

\* where control goes when a pass raises: no caller handles the exception
AfterRaise(pass) == "failed"

----------------------------------------------------------------------------
(* _sanitize_effect_bundles *)

\* whether the loop body reaches sanitized_effects.update for this effect
EffectIsKept(effect) ==
    IF effect.type_id < 0 THEN FALSE
    ELSE IF effect.type_id = EffectDisableTech /\ effect.attr_d < 0 THEN FALSE
    ELSE TRUE

RECURSIVE SanitizeEffectsKeepingKeys(_, _, _, _)
\* a kept effect stays under the key it had
SanitizeEffectsKeepingKeys(effects, i, index, sanitized_effects) ==
    IF i > Len(effects) THEN sanitized_effects
    ELSE IF EffectIsKept(effects[i])
         THEN SanitizeEffectsKeepingKeys(effects, i + 1, index + 1,
                  DictUpdate(sanitized_effects, i - 1, effects[i]))
         ELSE SanitizeEffectsKeepingKeys(effects, i + 1, index, sanitized_effects)

RECURSIVE SanitizeEffects(_, _, _, _)
\* the loop over effects: i the position in the list, index the next key
SanitizeEffects(effects, i, index, sanitized_effects) ==
    IF i > Len(effects) THEN sanitized_effects
    ELSE IF EffectIsKept(effects[i])
         THEN SanitizeEffects(effects, i + 1, index + 1,
                              DictUpdate(sanitized_effects, index, effects[i]))
         ELSE SanitizeEffects(effects, i + 1, index, sanitized_effects)

SanitizeBundle(bundle) ==
    [effects |-> SanitizeEffects(GetEffects(bundle), 1, 0, <<>>), sanitized |-> TRUE]

SanitizeEffectBundles ==
    /\ pc = "sanitize_effect_bundles"
    /\ genie_effect_bundles' =
           [b \in DOMAIN genie_effect_bundles |-> SanitizeBundle(genie_effect_bundles[b])]
    /\ pc' = PassAfter("sanitize_effect_bundles")
    /\ executed' = Append(executed, "sanitize_effect_bundles")
    /\ idx' = 1
    /\ UNCHANGED <<rawVars, error, lineVars, auxVars, techVars, civ_groups, linkVars>>

----------------------------------------------------------------------------
(* _create_unit_lines *)

\* the search without its break: the last index tagged wanted
FindLastConnectedIndex(connected_types, wanted) ==
    IF \E i \in DOMAIN connected_types : connected_types[i] = wanted
    THEN CHOOSE i \in DOMAIN connected_types :
             /\ connected_types[i] = wanted
             /\ \A j \in (i + 1)..Len(connected_types) : connected_types[j] # wanted
    ELSE 0

\* the for/break search of other_connections: the first index (counted from 1)
\* tagged wanted, 0 when the loop ends without break
FindConnectedIndex(connected_types, wanted) ==
    IF \E i \in DOMAIN connected_types : connected_types[i] = wanted
    THEN CHOOSE i \in DOMAIN connected_types :
             /\ connected_types[i] = wanted
             /\ \A j \in 1..(i - 1) : connected_types[j] # wanted
    ELSE 0

\* the mid-line unit is put at the head when the search finds nothing
PreviousUnitOrHead(connection) ==
    LET connected_index == FindConnectedIndex(connection.other_connections, ConnUnit)
    IN  IF connected_index = 0
        THEN [found |-> TRUE, id |-> None]
        ELSE [found |-> TRUE, id |-> connection.other_connected_ids[connected_index]]

\* the search for the previous unit of a unit that is not first in line:
\* found is FALSE when the for loop reaches its else branch
PreviousUnit(connection) ==
    LET connected_index == FindConnectedIndex(connection.other_connections, ConnUnit)
    IN  IF connected_index = 0
        THEN [found |-> FALSE, id |-> None]
        ELSE [found |-> TRUE, id |-> connection.other_connected_ids[connected_index]]

\* the group object created for a unit whose line does not exist yet;
\* "skip" for a villager
NewUnitLineKindVillagersFirst(unit, line_id) ==
    IF unit.task_group > 0 THEN "skip"
    ELSE IF unit.transform_unit_id > -1 THEN "Transform"
    ELSE IF line_id = MonkLineId THEN "Monk"
    ELSE "UnitLine"

NewUnitLineKind(unit, line_id) ==
    IF unit.transform_unit_id > -1 THEN "Transform"
    ELSE IF line_id = MonkLineId THEN "Monk"
    ELSE IF unit.task_group > 0 THEN "skip"
    ELSE "UnitLine"

\* one iteration of the loop over unit_connections
CreateUnitLinesStep ==
    /\ pc = "create_unit_lines"
    /\ idx <= Len(unit_connections)
    /\ LET connection == unit_connections[idx]
           unit_id == connection.id
           unit == genie_units[unit_id]
           line_id == connection.vertical_line
           exists == DictHas(pre_unit_lines, line_id)
           kind == NewUnitLineKind(unit, line_id)
           unit_line == IF exists THEN DictGet(pre_unit_lines, line_id)
                        ELSE <<kind, line_id>>
           line1 == IF exists THEN line ELSE (unit_line :> <<>>) @@ line
           previous == PreviousUnit(connection)
       IN  IF ~exists /\ kind = "skip"
           THEN \* continue
                /\ idx' = idx + 1
                /\ UNCHANGED <<pc, executed, error, lineVars>>
           ELSE /\ pre_unit_lines' = DictUpdate(pre_unit_lines, line_id, unit_line)
                /\ unit_ref' = DictUpdate(unit_ref, unit_id, unit_line)
                /\ transform_groups' =
                       IF ~exists /\ kind = "Transform"
                       THEN DictUpdate(transform_groups, line_id, unit_line)
                       ELSE transform_groups
                /\ monk_groups' =
                       IF ~exists /\ kind = "Monk"
                       THEN DictUpdate(monk_groups, line_id, unit_line)
                       ELSE monk_groups
                /\ switch_unit_id' =
                       IF ~exists /\ kind = "Monk"
                       THEN (unit_line :> MonkSwitchUnitId) @@ switch_unit_id
                       ELSE switch_unit_id
                /\ IF connection.line_mode = LineModeFirst
                   THEN /\ line' = [line1 EXCEPT
                                      ![unit_line] = AddUnit(@, unit_id, None)]
                        /\ idx' = idx + 1
                        /\ UNCHANGED <<pc, executed, error>>
                   ELSE IF ~previous.found
                   THEN \* raise Exception("Unit %s is not first in line, ...")
                        /\ line' = line1
                        /\ pc' = AfterRaise("create_unit_lines")
                        /\ UNCHANGED executed
                        /\ error' = <<"Unit is not first in line", unit_id>>
                        /\ UNCHANGED idx
                   ELSE /\ line' = [line1 EXCEPT
                                      ![unit_line] = AddUnit(@, unit_id, previous.id)]
                        /\ idx' = idx + 1
                        /\ UNCHANGED <<pc, executed, error>>
                /\ UNCHANGED <<unit_lines, unit_lines_vertical_ref, building_lines>>
    /\ UNCHANGED <<rawVars, genie_effect_bundles, auxVars, techVars, civ_groups, linkVars>>

RECURSIVE StoreByHead(_, _, _, _)
\* for line in pre_unit_lines.values(): unit_lines.update({head unit id: line})
StoreByHead(d, lines, members, i) ==
    IF i > Len(lines) THEN d
    ELSE StoreByHead(DictUpdate(d, HeadUnitId(members[lines[i]]), lines[i]),
                     lines, members, i + 1)

\* the code after the loop: the lines are stored in the data set
CreateUnitLinesStore ==
    /\ pc = "create_unit_lines"
    /\ idx > Len(unit_connections)
    /\ unit_lines' = StoreByHead(unit_lines, DictValues(pre_unit_lines), line, 1)
    /\ unit_lines_vertical_ref' =
           DictUpdateAll(unit_lines_vertical_ref, pre_unit_lines, 1)
    /\ pc' = PassAfter("create_unit_lines")
    /\ executed' = Append(executed, "create_unit_lines")
    /\ idx' = 1
    /\ UNCHANGED <<pre_unit_lines, line, building_lines, unit_ref,
                   transform_groups, monk_groups,
                   switch_unit_id>>
    /\ UNCHANGED <<rawVars, genie_effect_bundles, error, auxVars, techVars,
                   civ_groups, linkVars>>

----------------------------------------------------------------------------
(* _create_extra_unit_lines *)

RECURSIVE ExtraUnitLines(_, _)
\* the loop over extra_units from position i, on the record
\* [line, unit_lines, unit_ref]
ExtraUnitLines(st, i) ==
    IF i > Len(ExtraUnits) THEN st
    ELSE LET unit_id == ExtraUnits[i]
             unit_line == <<"ExtraLine", unit_id>>
         IN  ExtraUnitLines(
                 [line |-> (unit_line :> AddUnit(<<>>, unit_id, None)) @@ st.line,
                  unit_lines |-> DictUpdate(st.unit_lines, unit_id, unit_line),
                  unit_ref |-> DictUpdate(st.unit_ref, unit_id, unit_line)],
                 i + 1)

CreateExtraUnitLines ==
    /\ pc = "create_extra_unit_lines"
    /\ LET st == ExtraUnitLines(
                     [line |-> line, unit_lines |-> unit_lines, unit_ref |-> unit_ref], 1)
       IN  /\ line' = st.line
           /\ unit_lines' = st.unit_lines
           /\ unit_ref' = st.unit_ref
    /\ pc' = PassAfter("create_extra_unit_lines")
    /\ executed' = Append(executed, "create_extra_unit_lines")
    /\ idx' = 1
    /\ UNCHANGED <<pre_unit_lines, unit_lines_vertical_ref, building_lines,
                   transform_groups, monk_groups,
                   switch_unit_id>>
    /\ UNCHANGED <<rawVars, genie_effect_bundles, error, auxVars, techVars,
                   civ_groups, linkVars>>

----------------------------------------------------------------------------
(* _create_building_lines *)

\* connected_tech_indices: the positions tagged Tech, in order
ConnectedTechIndices(connected_types) ==
    SelectSeq([i \in DOMAIN connected_types |-> i],
              LAMBDA i : connected_types[i] = ConnTech)

\* the upgrade effects of a bundle whose source (attr_a) is the building
UpgradesFrom(effect_bundle, building_id) ==
    SelectSeq(GetEffectsOfType(effect_bundle, EffectUpgrade),
              LAMBDA upgrade : upgrade.attr_a = building_id)

\* the upgrade effects of a bundle whose target (attr_b) is the building
UpgradesOf(effect_bundle, building_id) ==
    SelectSeq(GetEffectsOfType(effect_bundle, EffectUpgrade),
              LAMBDA upgrade : upgrade.attr_b = building_id)

RECURSIVE SearchUpgrade(_, _, _, _)
\* the loop over connected_tech_indices from position k: the first tech with
\* an upgrade effect on the building gives the line id (attr_a of the first
\* such effect)
SearchUpgrade(connection, building_id, indices, k) ==
    IF k > Len(indices)
    THEN [found |-> FALSE, tech_id |-> None, line_id |-> building_id]
    ELSE LET connected_tech_id == connection.other_connected_ids[indices[k]]
             connected_tech == genie_techs[connected_tech_id]
             effect_bundle == genie_effect_bundles[connected_tech.tech_effect_id]
             upgrades == UpgradesOf(effect_bundle, building_id)
         IN  IF Len(upgrades) = 0
             THEN SearchUpgrade(connection, building_id, indices, k + 1)
             ELSE [found |-> TRUE, tech_id |-> connected_tech_id,
                   line_id |-> upgrades[1].attr_a]

\* the upgrade found for the building of a connection
ResolveLine(connection) ==
    SearchUpgrade(connection, connection.id,
                  ConnectedTechIndices(connection.other_connections), 1)

\* the upgraded building is put at the head when the search finds nothing
PreviousBuildingOrHead(connection) ==
    LET connected_index ==
            FindConnectedIndex(connection.other_connections, ConnBuilding)
    IN  IF connected_index = 0
        THEN [found |-> TRUE, id |-> None]
        ELSE [found |-> TRUE, id |-> connection.other_connected_ids[connected_index]]

\* the search for the previous building of an upgraded building: found is
\* FALSE when the for loop reaches its else branch
PreviousBuilding(connection) ==
    LET connected_index ==
            FindConnectedIndex(connection.other_connections, ConnBuilding)
    IN  IF connected_index = 0
        THEN [found |-> FALSE, id |-> None]
        ELSE [found |-> TRUE, id |-> connection.other_connected_ids[connected_index]]

\* GenieStackBuildingGroup(stack_unit_id, line_id) or
\* GenieBuildingLineGroup(line_id); get_id() is line_id for both
NewBuildingLine(building, line_id) ==
    IF building.stack_unit_id > -1
    THEN <<"StackBuilding", line_id>>
    ELSE <<"BuildingLine", line_id>>

\* one iteration of the loop over building_connections
CreateBuildingLinesStep ==
    /\ pc = "create_building_lines"
    /\ idx <= Len(building_connections)
    /\ LET connection == building_connections[idx]
           building_id == connection.id
           building == genie_units[building_id]
           found == ResolveLine(connection)
           line_id == found.line_id
           previous == PreviousBuilding(connection)
           previous_building_id == IF found.found THEN previous.id ELSE None
           exists == DictHas(building_lines, line_id)
           building_line == IF exists THEN DictGet(building_lines, line_id)
                            ELSE NewBuildingLine(building, line_id)
           line1 == IF exists THEN line ELSE (building_line :> <<>>) @@ line
           building_upgrade ==
               TechGroup("BuildingLineUpgrade", found.tech_id, line_id, building_id)
       IN  IF building.head_unit_id > -1
           THEN \* continue
                /\ idx' = idx + 1
                /\ UNCHANGED <<pc, executed, error, lineVars, tech_groups, building_upgrades>>
           ELSE IF found.found /\ ~previous.found
           THEN \* raise Exception("Building %s is not first in line, ...")
                /\ pc' = AfterRaise("create_building_lines")
                /\ UNCHANGED executed
                /\ error' = <<"Building is not first in line", building_id>>
                /\ UNCHANGED <<idx, lineVars, tech_groups, building_upgrades>>
           ELSE /\ tech_groups' =
                       IF found.found
                       THEN DictUpdate(tech_groups, found.tech_id, building_upgrade)
                       ELSE tech_groups
                /\ building_upgrades' =
                       IF found.found
                       THEN DictUpdate(building_upgrades, found.tech_id, building_upgrade)
                       ELSE building_upgrades
                /\ building_lines' = DictUpdate(building_lines, line_id, building_line)
                /\ line' = [line1 EXCEPT ![building_line] =
                                AddUnit(@, building_id, previous_building_id)]
                /\ unit_ref' = DictUpdate(unit_ref, building_id, building_line)
                /\ idx' = idx + 1
                /\ UNCHANGED <<pc, executed, error, pre_unit_lines, unit_lines,
                               unit_lines_vertical_ref, transform_groups, monk_groups,
                               switch_unit_id>>
    /\ UNCHANGED <<rawVars, genie_effect_bundles, auxVars, age_upgrades,
                   unit_unlocks, unit_upgrades, building_unlocks, stat_upgrades,
                   initiated_techs, civ_boni, civ_groups, linkVars>>

\* the loop over building_connections has ended
CreateBuildingLinesEnd ==
    /\ pc = "create_building_lines"
    /\ idx > Len(building_connections)
    /\ pc' = PassAfter("create_building_lines")
    /\ executed' = Append(executed, "create_building_lines")
    /\ idx' = 1
    /\ UNCHANGED <<rawVars, genie_effect_bundles, error, lineVars, auxVars,
                   techVars, civ_groups, linkVars>>

----------------------------------------------------------------------------
(* _create_villager_groups, _create_ambient_groups, _create_variant_groups,
   _create_terrain_groups *)

RECURSIVE SetToSortedSeq(_)
\* iteration over a dict or set keyed by ids: ascending id
SetToSortedSeq(S) ==
    IF S = {} THEN <<>>
    ELSE LET m == CHOOSE x \in S : \A y \in S : x <= y
         IN  <<m>> \o SetToSortedSeq(S \ {m})

RECURSIVE TaskGroups(_, _, _)
\* the loop over units.values() from position i of the id list, on the record
\* [line, task_groups, task_group_ids, unit_ids]
TaskGroups(st, ids, i) ==
    IF i > Len(ids) THEN st
    ELSE LET unit == genie_units[ids[i]]
             task_group_id == unit.task_group
             task_group == <<"TaskGroup", TaskGroupLineId(task_group_id)>>
         IN  IF task_group_id = 0 THEN TaskGroups(st, ids, i + 1)
             ELSE TaskGroups(
                    [line |-> IF task_group_id \in st.task_group_ids
                              THEN [st.line EXCEPT ![task_group] = AddUnit(@, ids[i], None)]
                              ELSE (task_group :> AddUnit(<<>>, ids[i], None)) @@ st.line,
                     task_groups |-> DictUpdate(st.task_groups, task_group_id, task_group),
                     task_group_ids |-> st.task_group_ids \cup {task_group_id},
                     unit_ids |-> st.unit_ids \cup {ids[i]}],
                    ids, i + 1)

RECURSIVE UpdateRefsKeepingEarlier(_, _, _, _)
\* the loop setting a reference only for the unit ids that have none
UpdateRefsKeepingEarlier(d, ids, group, i) ==
    IF i > Len(ids) THEN d
    ELSE IF DictHas(d, ids[i])
    THEN UpdateRefsKeepingEarlier(d, ids, group, i + 1)
    ELSE UpdateRefsKeepingEarlier(DictUpdate(d, ids[i], group), ids, group, i + 1)

RECURSIVE UpdateRefs(_, _, _, _)
\* for unit_id in ids: unit_ref.update({unit_id: group})
UpdateRefs(d, ids, group, i) ==
    IF i > Len(ids) THEN d
    ELSE UpdateRefs(DictUpdate(d, ids[i], group), ids, group, i + 1)

CreateVillagerGroups ==
    /\ pc = "create_villager_groups"
    /\ LET st == TaskGroups([line |-> line, task_groups |-> task_groups,
                             task_group_ids |-> {}, unit_ids |-> {}],
                            SetToSortedSeq(DOMAIN genie_units), 1)
           villager == <<"Villager", VillagerGroupId>>
       IN  /\ line' = st.line
           /\ task_groups' = st.task_groups
           /\ villager_variants' =
                  [i \in DOMAIN SetToSortedSeq(st.task_group_ids) |->
                      DictGet(st.task_groups, SetToSortedSeq(st.task_group_ids)[i])]
           /\ unit_lines' = DictUpdate(unit_lines, VillagerGroupId, villager)
           /\ villager_groups' = DictUpdate(villager_groups, VillagerGroupId, villager)
           /\ unit_ref' = UpdateRefs(unit_ref, SetToSortedSeq(st.unit_ids), villager, 1)
    /\ pc' = PassAfter("create_villager_groups")
    /\ executed' = Append(executed, "create_villager_groups")
    /\ UNCHANGED <<pre_unit_lines, unit_lines_vertical_ref, building_lines,
                   transform_groups, monk_groups,
                   switch_unit_id, ambient_groups, variant_groups,
                   terrain_groups>>
    /\ UNCHANGED <<rawVars, genie_effect_bundles, idx, error, techVars,
                   civ_groups, linkVars>>

RECURSIVE AmbientGroups(_, _)
\* the loop over ambient_ids from position i, on [line, ambient_groups, unit_ref]
AmbientGroups(st, i) ==
    IF i > Len(AMBIENT_GROUP_LOOKUPS) THEN st
    ELSE LET ambient_id == AMBIENT_GROUP_LOOKUPS[i]
             ambient_group == <<"Ambient", ambient_id>>
         IN  AmbientGroups(
                 [line |-> (ambient_group :> AddUnit(<<>>, ambient_id, None)) @@ st.line,
                  ambient_groups |-> DictUpdate(st.ambient_groups, ambient_id, ambient_group),
                  unit_ref |-> DictUpdate(st.unit_ref, ambient_id, ambient_group)],
                 i + 1)

CreateAmbientGroups ==
    /\ pc = "create_ambient_groups"
    /\ LET st == AmbientGroups([line |-> line, ambient_groups |-> ambient_groups,
                                unit_ref |-> unit_ref], 1)
       IN  /\ line' = st.line
           /\ ambient_groups' = st.ambient_groups
           /\ unit_ref' = st.unit_ref
    /\ pc' = PassAfter("create_ambient_groups")
    /\ executed' = Append(executed, "create_ambient_groups")
    /\ UNCHANGED <<pre_unit_lines, unit_lines, unit_lines_vertical_ref,
                   building_lines, transform_groups, monk_groups,
                   switch_unit_id, task_groups,
                   villager_groups, villager_variants, variant_groups, terrain_groups>>
    /\ UNCHANGED <<rawVars, genie_effect_bundles, idx, error, techVars,
                   civ_groups, linkVars>>

RECURSIVE AddUnits(_, _, _)
\* for variant_id in ids: variant_group.add_unit(...)
AddUnits(l, ids, i) ==
    IF i > Len(ids) THEN l ELSE AddUnits(AddUnit(l, ids[i], None), ids, i + 1)

RECURSIVE VariantGroups(_, _)
\* the loop over variants.items() from position i, on
\* [line, variant_groups, unit_ref]
VariantGroups(st, i) ==
    IF i > Len(VARIANT_GROUP_LOOKUPS) THEN st
    ELSE LET group_id == VARIANT_GROUP_LOOKUPS[i][1]
             members == VARIANT_GROUP_LOOKUPS[i][2]
             variant_group == <<"Variant", group_id>>
         IN  VariantGroups(
                 [line |-> (variant_group :> AddUnits(<<>>, members, 1)) @@ st.line,
                  variant_groups |-> DictUpdate(st.variant_groups, group_id, variant_group),
                  unit_ref |-> UpdateRefs(st.unit_ref, members, variant_group, 1)],
                 i + 1)

CreateVariantGroups ==
    /\ pc = "create_variant_groups"
    /\ LET st == VariantGroups([line |-> line, variant_groups |-> variant_groups,
                                unit_ref |-> unit_ref], 1)
       IN  /\ line' = st.line
           /\ variant_groups' = st.variant_groups
           /\ unit_ref' = st.unit_ref
    /\ pc' = PassAfter("create_variant_groups")
    /\ executed' = Append(executed, "create_variant_groups")
    /\ UNCHANGED <<pre_unit_lines, unit_lines, unit_lines_vertical_ref,
                   building_lines, transform_groups, monk_groups,
                   switch_unit_id, task_groups,
                   villager_groups, villager_variants, ambient_groups, terrain_groups>>
    /\ UNCHANGED <<rawVars, genie_effect_bundles, idx, error, techVars,
                   civ_groups, linkVars>>

RECURSIVE TerrainGroups(_, _)
\* the loop over terrains from position i: a group per enabled terrain
TerrainGroups(d, i) ==
    IF i > Len(genie_terrains) THEN d
    ELSE TerrainGroups(IF genie_terrains[i]
                       THEN DictUpdate(d, i - 1, <<"Terrain", i - 1>>)
                       ELSE d,
                       i + 1)

CreateTerrainGroups ==
    /\ pc = "create_terrain_groups"
    /\ terrain_groups' = TerrainGroups(terrain_groups, 1)
    /\ pc' = PassAfter("create_terrain_groups")
    /\ executed' = Append(executed, "create_terrain_groups")
    /\ idx' = 1
    /\ UNCHANGED <<task_groups, villager_groups, villager_variants,
                   ambient_groups, variant_groups>>
    /\ UNCHANGED <<rawVars, genie_effect_bundles, error, lineVars, techVars,
                   civ_groups, linkVars>>

----------------------------------------------------------------------------
(* _create_tech_groups *)

\* whether a tech connection is classified as an age upgrade
\* the age test without its look at the line mode
IsAgeUpgradeByTechType(tech, connection) == tech.tech_type = 2

IsAgeUpgrade(tech, connection) ==
    tech.tech_type = 2 \/ connection.line_mode = LineModeAge

\* the unlock_id left by the loop over unlock_effects: attr_a of the last one
LastUnlockId(unlock_effects) == unlock_effects[Len(unlock_effects)].attr_a

\* one iteration of the loop over tech_connections
CreateTechGroupsTechStep ==
    /\ pc = "create_tech_groups"
    /\ idx <= Len(tech_connections)
    /\ LET connection == tech_connections[idx]
           connected_buildings == connection.buildings
           tech_id == connection.id
           tech == genie_techs[tech_id]
           connected_index ==
               FindConnectedIndex(connection.other_connections, ConnAge)
           effect_bundle == genie_effect_bundles[tech.tech_effect_id]
           unlock_effects == GetEffectsOfType(effect_bundle, EffectUnlock)
       IN  IF IsAgeUpgrade(tech, connection)
           THEN IF connected_index = 0
                THEN \* raise Exception("Tech %s is shown in Age progress bar, ...")
                     /\ pc' = AfterRaise("create_tech_groups")
                     /\ UNCHANGED executed
                     /\ error' = <<"Tech is shown in Age progress bar", tech_id>>
                     /\ UNCHANGED <<idx, techVars>>
                ELSE LET age_up == TechGroup("AgeUpgrade", tech_id,
                                       connection.other_connected_ids[connected_index],
                                       None)
                     IN  /\ tech_groups' = DictUpdate(tech_groups, tech_id, age_up)
                         /\ age_upgrades' = DictUpdate(age_upgrades, tech_id, age_up)
                         /\ idx' = idx + 1
                         /\ UNCHANGED <<pc, executed, error, unit_unlocks, unit_upgrades,
                                        building_unlocks, building_upgrades,
                                        stat_upgrades, initiated_techs, civ_boni>>
           ELSE IF Len(connected_buildings) > 0
           THEN IF ~DictHas(building_upgrades, tech_id) /\ Len(unlock_effects) > 0
                THEN LET building_unlock ==
                             TechGroup("BuildingUnlock", tech_id,
                                       LastUnlockId(unlock_effects), None)
                     IN  /\ tech_groups' = DictUpdate(tech_groups, tech_id, building_unlock)
                         /\ building_unlocks' =
                                DictUpdate(building_unlocks, tech_id, building_unlock)
                         /\ idx' = idx + 1
                         /\ UNCHANGED <<pc, executed, error, age_upgrades, unit_unlocks,
                                        unit_upgrades, building_upgrades,
                                        stat_upgrades, initiated_techs, civ_boni>>
                ELSE /\ idx' = idx + 1
                     /\ UNCHANGED <<pc, executed, error, techVars>>
           ELSE LET stat_up == TechGroup("StatUpgrade", tech_id, None, None)
                IN  /\ tech_groups' = DictUpdate(tech_groups, tech_id, stat_up)
                    /\ stat_upgrades' = DictUpdate(stat_upgrades, tech_id, stat_up)
                    /\ idx' = idx + 1
                    /\ UNCHANGED <<pc, executed, error, age_upgrades, unit_unlocks,
                                   unit_upgrades, building_unlocks,
                                   building_upgrades, initiated_techs, civ_boni>>
    /\ UNCHANGED <<rawVars, genie_effect_bundles, lineVars, auxVars,
                   civ_groups, linkVars>>

\* the loop over tech_connections has ended: on to the unit connections
CreateTechGroupsTechEnd ==
    /\ pc = "create_tech_groups"
    /\ idx > Len(tech_connections)
    /\ pc' = "create_tech_groups_units"
    /\ UNCHANGED executed
    /\ idx' = 1
    /\ UNCHANGED <<rawVars, genie_effect_bundles, error, lineVars, auxVars,
                   techVars, civ_groups, linkVars>>

\* the skip test applied to the units that are not first in line only
IsUnlockedFromStartBehindHead(connection) ==
    /\ connection.required_research = -1
    /\ connection.enabling_research = -1
    /\ connection.line_mode # LineModeFirst

\* whether the unit of a unit connection is unlocked from the start
IsUnlockedFromStart(connection) ==
    connection.required_research = -1 /\ connection.enabling_research = -1

\* one iteration of the loop over unit_connections
CreateTechGroupsUnitStep ==
    /\ pc = "create_tech_groups_units"
    /\ idx <= Len(unit_connections)
    /\ LET connection == unit_connections[idx]
           unit_id == connection.id
           required_research_id == connection.required_research
           enabling_research_id == connection.enabling_research
           line_mode == connection.line_mode
           line_id == connection.vertical_line
           unit_unlock == TechGroup("UnitUnlock", enabling_research_id, line_id, None)
           unit_upgrade ==
               TechGroup("UnitLineUpgrade", required_research_id, line_id, unit_id)
       IN  IF IsUnlockedFromStart(connection)
           THEN UNCHANGED <<tech_groups, unit_unlocks, unit_upgrades>>
           ELSE IF line_mode = LineModeFirst
           THEN /\ tech_groups' =
                       DictUpdate(tech_groups, enabling_research_id, unit_unlock)
                /\ unit_unlocks' =
                       DictUpdate(unit_unlocks, enabling_research_id, unit_unlock)
                /\ UNCHANGED unit_upgrades
           ELSE IF line_mode = LineModeMid
           THEN /\ tech_groups' =
                       DictUpdate(tech_groups, required_research_id, unit_upgrade)
                /\ unit_upgrades' =
                       DictUpdate(unit_upgrades, required_research_id, unit_upgrade)
                /\ UNCHANGED unit_unlocks
           ELSE UNCHANGED <<tech_groups, unit_unlocks, unit_upgrades>>
    /\ idx' = idx + 1
    /\ UNCHANGED <<pc, executed, error, age_upgrades, building_unlocks, building_upgrades,
                   stat_upgrades, initiated_techs, civ_boni>>
    /\ UNCHANGED <<rawVars, genie_effect_bundles, lineVars, auxVars,
                   civ_groups, linkVars>>

RECURSIVE InitiatedTechs(_, _, _)
\* the loop over genie_units.values() from position i, on
\* [tech_groups, initiated_techs]
InitiatedTechs(st, ids, i) ==
    IF i > Len(ids) THEN st
    ELSE LET building_id == ids[i]
             initiated_tech_id == genie_units[building_id].research_id
             initiated_tech ==
                 TechGroup("InitiatedTech", initiated_tech_id, building_id, None)
         IN  IF initiated_tech_id = -1 THEN InitiatedTechs(st, ids, i + 1)
             ELSE InitiatedTechs(
                    [tech_groups |->
                         DictUpdate(st.tech_groups, initiated_tech_id, initiated_tech),
                     initiated_techs |->
                         DictUpdate(st.initiated_techs, initiated_tech_id, initiated_tech)],
                    ids, i + 1)

\* the civ bonus test without its check of full_tech_mode
IsCivBonusInAnyMode(tech) ==
    /\ ~(tech.civilization_id <= 0)
    /\ ~(tech.research_location_id > 0)

\* whether a tech record is a passive civilization bonus
IsCivBonus(tech) ==
    /\ ~(tech.civilization_id <= 0)
    /\ ~(tech.research_location_id > 0)
    /\ ~tech.full_tech_mode

RECURSIVE CivBoni(_, _)
\* the loop over range(len(genie_techs)) from index, on [tech_groups, civ_boni]
CivBoni(st, index) ==
    IF index >= Cardinality(DOMAIN genie_techs) THEN st
    ELSE LET civ_bonus == TechGroup("CivBonus", index,
                                    genie_techs[index].civilization_id, None)
         IN  IF IsCivBonus(genie_techs[index])
             THEN CivBoni([tech_groups |-> DictUpdate(st.tech_groups, index, civ_bonus),
                           civ_boni |-> DictUpdate(st.civ_boni, index, civ_bonus)],
                          index + 1)
             ELSE CivBoni(st, index + 1)

\* the loop over unit_connections has ended: the initiated techs and the
\* civ boni
CreateTechGroupsRest ==
    /\ pc = "create_tech_groups_units"
    /\ idx > Len(unit_connections)
    /\ LET st1 == InitiatedTechs([tech_groups |-> tech_groups,
                                  initiated_techs |-> initiated_techs],
                                 SetToSortedSeq(DOMAIN genie_units), 1)
           st2 == CivBoni([tech_groups |-> st1.tech_groups, civ_boni |-> civ_boni], 0)
       IN  /\ tech_groups' = st2.tech_groups
           /\ initiated_techs' = st1.initiated_techs
           /\ civ_boni' = st2.civ_boni
    /\ pc' = PassAfter("create_tech_groups")
    /\ executed' = Append(executed, "create_tech_groups")
    /\ idx' = 1
    /\ UNCHANGED <<age_upgrades, unit_unlocks, unit_upgrades, building_unlocks,
                   building_upgrades, stat_upgrades>>
    /\ UNCHANGED <<rawVars, genie_effect_bundles, error, lineVars, auxVars,
                   civ_groups, linkVars>>

----------------------------------------------------------------------------
(* _create_civ_groups *)

RECURSIVE CivGroups(_, _)
\* the loop over range(len(civ_objects)) from index
CivGroups(d, index) ==
    IF index >= Cardinality(genie_civs) THEN d
    ELSE CivGroups(DictUpdate(d, index, <<"Civ", index>>), index + 1)

CreateCivGroups ==
    /\ pc = "create_civ_groups"
    /\ civ_groups' = CivGroups(civ_groups, 0)
    /\ pc' = PassAfter("create_civ_groups")
    /\ executed' = Append(executed, "create_civ_groups")
    /\ UNCHANGED <<rawVars, genie_effect_bundles, idx, error, lineVars, auxVars,
                   techVars, linkVars>>

----------------------------------------------------------------------------
(* Group queries of the data format classes *)

\* <tech group>.effects: the effect bundle of the group's tech
TechGroupEffects(group) ==
    genie_effect_bundles[genie_techs[group.id].tech_effect_id]

\* <group>.get_head_unit(): for the villager group the head of its first variant
GroupHeadUnit(members, group) ==
    IF group[1] = "Villager"
    THEN genie_units[HeadUnitId(members[villager_variants[1]])]
    ELSE genie_units[HeadUnitId(members[group])]

\* <group>.is_creatable() / get_train_location_id()
TrainLocationId(members, group) == GroupHeadUnit(members, group).train_location_id

IsCreatable(members, group) == TrainLocationId(members, group) > -1

\* <group>.add_creatable(line): a line is registered once
AddCreatable(cr, group, created) ==
    IF Contains(ListOf(cr, group), created) THEN cr
    ELSE (group :> Append(ListOf(cr, group), created)) @@ cr

\* <group>.get_garrison_mode(); is_garrison() is "not NONE"
GetGarrisonMode(members, group) ==
    IF group[1] = "Monk" THEN "MONK"
    ELSE GroupHeadUnit(members, group).garrison_mode

IsGarrison(members, group) == GetGarrisonMode(members, group) # "NONE"

\* <group>.get_class_id()
GetClassId(members, group) == GroupHeadUnit(members, group).class_id

----------------------------------------------------------------------------
(* _link_building_upgrades *)

RECURSIVE LinkUpgradeEffects(_, _, _)
\* the loop over the effects of one age upgrade from position i, on
\* [line, unit_ref]
LinkUpgradeEffects(st, effects, i) ==
    IF i > Len(effects) THEN st
    ELSE LET effect == effects[i]
             upgrade_source_id == effect.attr_a
             upgrade_target_id == effect.attr_b
             upgraded_line == DictGet(building_lines, upgrade_source_id)
         IN  IF effect.type_id # EffectUpgrade
             THEN LinkUpgradeEffects(st, effects, i + 1)
             ELSE IF ~DictHas(building_lines, upgrade_source_id)
             THEN LinkUpgradeEffects(st, effects, i + 1)
             ELSE LinkUpgradeEffects(
                    [line |-> [st.line EXCEPT ![upgraded_line] =
                                   AddUnit(@, upgrade_target_id, None)],
                     unit_ref |-> DictUpdate(st.unit_ref, upgrade_target_id, upgraded_line)],
                    effects, i + 1)

RECURSIVE LinkAgeUps(_, _, _)
\* the loop over age_ups.values() from position i
LinkAgeUps(st, age_ups, i) ==
    IF i > Len(age_ups) THEN st
    ELSE LinkAgeUps(LinkUpgradeEffects(st, GetEffects(TechGroupEffects(age_ups[i])), 1),
                    age_ups, i + 1)

LinkBuildingUpgrades ==
    /\ pc = "link_building_upgrades"
    /\ LET st == LinkAgeUps([line |-> line, unit_ref |-> unit_ref],
                            DictValues(age_upgrades), 1)
       IN  /\ line' = st.line
           /\ unit_ref' = st.unit_ref
    /\ pc' = PassAfter("link_building_upgrades")
    /\ executed' = Append(executed, "link_building_upgrades")
    /\ UNCHANGED <<pre_unit_lines, unit_lines, unit_lines_vertical_ref,
                   building_lines, transform_groups, monk_groups,
                   switch_unit_id>>
    /\ UNCHANGED <<rawVars, genie_effect_bundles, idx, error, auxVars, techVars,
                   civ_groups, linkVars>>

----------------------------------------------------------------------------
(* _link_creatables *)

RECURSIVE LinkUnitCreatables(_, _, _)
\* the loop over unit_lines.values() from position i, on [creates, error];
\* a train location that is no building line is a KeyError
LinkUnitCreatables(st, lines, i) ==
    IF i > Len(lines) \/ st.error # <<>> THEN st
    ELSE LET train_location_id == TrainLocationId(line, lines[i])
         IN  IF ~IsCreatable(line, lines[i])
             THEN LinkUnitCreatables(st, lines, i + 1)
             ELSE IF ~DictHas(building_lines, train_location_id)
             THEN [st EXCEPT !.error = <<"KeyError", train_location_id>>]
             ELSE LinkUnitCreatables(
                    [st EXCEPT !.creates =
                        AddCreatable(@, DictGet(building_lines, train_location_id), lines[i])],
                    lines, i + 1)

RECURSIVE LinkBuildingCreatables(_, _, _)
\* the loop over building_lines.values() from position i, on [creates, error]
LinkBuildingCreatables(st, lines, i) ==
    IF i > Len(lines) \/ st.error # <<>> THEN st
    ELSE LET train_location_id == TrainLocationId(line, lines[i])
         IN  IF ~IsCreatable(line, lines[i])
             THEN LinkBuildingCreatables(st, lines, i + 1)
             ELSE IF DictHas(villager_groups, train_location_id)
             THEN LinkBuildingCreatables(
                    [st EXCEPT !.creates =
                        AddCreatable(@, DictGet(villager_groups, train_location_id), lines[i])],
                    lines, i + 1)
             ELSE IF ~DictHas(unit_lines, train_location_id)
             THEN [st EXCEPT !.error = <<"KeyError", train_location_id>>]
             ELSE LinkBuildingCreatables(
                    [st EXCEPT !.creates =
                        AddCreatable(@, DictGet(unit_lines, train_location_id), lines[i])],
                    lines, i + 1)

LinkCreatables ==
    /\ pc = "link_creatables"
    /\ LET st1 == LinkUnitCreatables([creates |-> creates, error |-> <<>>],
                                     DictValues(unit_lines), 1)
           st2 == LinkBuildingCreatables(st1, DictValues(building_lines), 1)
       IN  /\ creates' = st2.creates
           /\ error' = st2.error
           /\ pc' = IF st2.error # <<>> THEN AfterRaise("link_creatables")
                    ELSE PassAfter("link_creatables")
           /\ executed' = IF st2.error # <<>> THEN executed
                           ELSE Append(executed, "link_creatables")
    /\ UNCHANGED <<garrison_locations, garrison_entities, otherLinks>>
    /\ UNCHANGED <<rawVars, genie_effect_bundles, idx, lineVars, auxVars,
                   techVars, civ_groups>>

----------------------------------------------------------------------------
(* Queries and registrations of the groups used by the remaining linkers *)

\* <group>.add_...(x) on the per-group lists links: x is registered once
AddOnce(links, group, x) ==
    IF Contains(ListOf(links, group), x) THEN links
    ELSE (group :> Append(ListOf(links, group), x)) @@ links

\* genie_techs is a dict keyed by the tech ids: a tech group of another id
\* finds no tech record
HasTech(group) == group.id \in DOMAIN genie_techs

\* <tech group>.is_researchable() / get_research_location_id()
GetResearchLocationId(group) == genie_techs[group.id].research_location_id

IsResearchable(group) == GetResearchLocationId(group) > 0

\* <tech group>.is_unique() / get_civilization()
TechIsUnique(group) == genie_techs[group.id].civilization_id > -1

GetCivilization(group) ==
    IF group.kind = "CivBonus" THEN group.a
    ELSE genie_techs[group.id].civilization_id

\* <group>.get_head_unit_id()
GroupHeadUnitId(members, group) ==
    IF group[1] = "Villager" THEN HeadUnitId(members[villager_variants[1]])
    ELSE HeadUnitId(members[group])

\* connections[id] of a connection table keyed by id
HasConnection(connections, id) ==
    \E i \in DOMAIN connections : connections[i].id = id

ConnectionOf(connections, id) ==
    connections[CHOOSE i \in DOMAIN connections : connections[i].id = id]

\* <line group>.is_unique(): the research enabling the head unit belongs to a
\* civilization
LineIsUnique(connections, group) ==
    LET head_unit_id == GroupHeadUnitId(line, group)
    IN  /\ HasConnection(connections, head_unit_id)
        /\ ConnectionOf(connections, head_unit_id).enabling_research # -1
        /\ genie_techs[ConnectionOf(connections, head_unit_id).enabling_research]
               .civilization_id > -1

\* <line group>.has_command(command_id)
HasCommand(group, command_id) ==
    \E i \in DOMAIN GroupHeadUnit(line, group).unit_commands :
        GroupHeadUnit(line, group).unit_commands[i].type = command_id

----------------------------------------------------------------------------
(* _link_researchables *)

RECURSIVE LinkResearchablesFrom(_, _, _)
\* the loop over tech_groups.values() from position i, on [researches, error];
\* a research location that is no building line is a KeyError, and so is a
\* group whose tech id is no key of genie_techs
LinkResearchablesFrom(st, techs, i) ==
    IF i > Len(techs) \/ st.error # <<>> THEN st
    ELSE LET tech == techs[i]
             research_location_id == GetResearchLocationId(tech)
         IN  IF ~HasTech(tech)
             THEN [st EXCEPT !.error = <<"KeyError", tech.id>>]
             ELSE IF ~IsResearchable(tech)
             THEN LinkResearchablesFrom(st, techs, i + 1)
             ELSE IF ~DictHas(building_lines, research_location_id)
             THEN [st EXCEPT !.error = <<"KeyError", research_location_id>>]
             ELSE LinkResearchablesFrom(
                    [st EXCEPT !.researches =
                        AddOnce(@, DictGet(building_lines, research_location_id), tech)],
                    techs, i + 1)

LinkResearchables ==
    /\ pc = "link_researchables"
    /\ LET st == LinkResearchablesFrom([researches |-> researches, error |-> <<>>],
                                       DictValues(tech_groups), 1)
       IN  /\ researches' = st.researches
           /\ error' = st.error
           /\ pc' = IF st.error # <<>> THEN AfterRaise("link_researchables")
                    ELSE PassAfter("link_researchables")
           /\ executed' = IF st.error # <<>> THEN executed
                           ELSE Append(executed, "link_researchables")
    /\ UNCHANGED <<creates, garrison_locations, garrison_entities,
                   civ_bonus_techs, unique_entities, unique_techs,
                   accepts_resources, trading_lines>>
    /\ UNCHANGED <<rawVars, genie_effect_bundles, idx, lineVars, auxVars,
                   techVars, civ_groups>>

----------------------------------------------------------------------------
(* _link_civ_uniques *)

RECURSIVE LinkCivBoni(_, _, _)
\* the loop over civ_boni.values() from position i, on the record
\* [civ_bonus_techs, unique_entities, unique_techs, error]; a civilization
\* without a civ group is a KeyError
LinkCivBoni(st, boni, i) ==
    IF i > Len(boni) \/ st.error # <<>> THEN st
    ELSE LET bonus == boni[i]
             civ_id == GetCivilization(bonus)
         IN  IF ~DictHas(civ_groups, civ_id)
             THEN [st EXCEPT !.error = <<"KeyError", civ_id>>]
             ELSE LinkCivBoni(
                    [st EXCEPT !.civ_bonus_techs =
                        AddOnce(@, DictGet(civ_groups, civ_id), bonus)],
                    boni, i + 1)

RECURSIVE LinkUniqueLines(_, _, _, _)
\* the loop over unit_lines.values() (building_lines.values()) from position
\* i, with the connection table of the lines' head units
LinkUniqueLines(st, connections, lines, i) ==
    IF i > Len(lines) \/ st.error # <<>> THEN st
    ELSE LET head_unit_id == GroupHeadUnitId(line, lines[i])
             head_unit_connection == ConnectionOf(connections, head_unit_id)
             enabling_research_id == head_unit_connection.enabling_research
             enabling_civ_id == genie_techs[enabling_research_id].civilization_id
         IN  IF ~LineIsUnique(connections, lines[i])
             THEN LinkUniqueLines(st, connections, lines, i + 1)
             ELSE IF ~DictHas(civ_groups, enabling_civ_id)
             THEN [st EXCEPT !.error = <<"KeyError", enabling_civ_id>>]
             ELSE LinkUniqueLines(
                    [st EXCEPT !.unique_entities =
                        AddOnce(@, DictGet(civ_groups, enabling_civ_id), lines[i])],
                    connections, lines, i + 1)

RECURSIVE LinkUniqueTechs(_, _, _)
\* the loop over tech_groups.values() from position i
LinkUniqueTechs(st, techs, i) ==
    IF i > Len(techs) \/ st.error # <<>> THEN st
    ELSE LET tech_group == techs[i]
             civ_id == GetCivilization(tech_group)
         IN  IF ~HasTech(tech_group)
             THEN [st EXCEPT !.error = <<"KeyError", tech_group.id>>]
             ELSE IF ~(TechIsUnique(tech_group) /\ IsResearchable(tech_group))
             THEN LinkUniqueTechs(st, techs, i + 1)
             ELSE IF ~DictHas(civ_groups, civ_id)
             THEN [st EXCEPT !.error = <<"KeyError", civ_id>>]
             ELSE LinkUniqueTechs(
                    [st EXCEPT !.unique_techs =
                        AddOnce(@, DictGet(civ_groups, civ_id), tech_group)],
                    techs, i + 1)

LinkCivUniques ==
    /\ pc = "link_civ_uniques"
    /\ LET st1 == LinkCivBoni([civ_bonus_techs |-> civ_bonus_techs,
                               unique_entities |-> unique_entities,
                               unique_techs |-> unique_techs, error |-> <<>>],
                              DictValues(civ_boni), 1)
           st2 == LinkUniqueLines(st1, unit_connections, DictValues(unit_lines), 1)
           st3 == LinkUniqueLines(st2, building_connections,
                                  DictValues(building_lines), 1)
           st4 == LinkUniqueTechs(st3, DictValues(tech_groups), 1)
       IN  /\ civ_bonus_techs' = st4.civ_bonus_techs
           /\ unique_entities' = st4.unique_entities
           /\ unique_techs' = st4.unique_techs
           /\ error' = st4.error
           /\ pc' = IF st4.error # <<>> THEN AfterRaise("link_civ_uniques")
                    ELSE PassAfter("link_civ_uniques")
           /\ executed' = IF st4.error # <<>> THEN executed
                           ELSE Append(executed, "link_civ_uniques")
    /\ UNCHANGED <<creates, garrison_locations, garrison_entities, researches,
                   accepts_resources, trading_lines>>
    /\ UNCHANGED <<rawVars, genie_effect_bundles, idx, lineVars, auxVars,
                   techVars, civ_groups>>

----------------------------------------------------------------------------
(* _link_resources_to_dropsites *)

RECURSIVE AcceptResourcesOfOutput(_, _, _, _, _)
\* the loop over the commands registering resource_out whatever its value
AcceptResourcesOfOutput(accepts, commands, drop_site_id0, drop_site_id1, i) ==
    IF i > Len(commands) THEN accepts
    ELSE LET command == commands[i]
             resource_id == command.resource_out
             accepts0 == IF drop_site_id0 > -1
                         THEN AddOnce(accepts, DictGet(building_lines, drop_site_id0),
                                      resource_id)
                         ELSE accepts
             accepts1 == IF drop_site_id1 > -1
                         THEN AddOnce(accepts0, DictGet(building_lines, drop_site_id1),
                                      resource_id)
                         ELSE accepts0
         IN  IF command.type \in {5, 110}
             THEN AcceptResourcesOfOutput(accepts1, commands, drop_site_id0,
                                          drop_site_id1, i + 1)
             ELSE AcceptResourcesOfOutput(accepts, commands, drop_site_id0,
                                          drop_site_id1, i + 1)

RECURSIVE AcceptResources(_, _, _, _, _)
\* the loop over the commands of one villager unit from position i
AcceptResources(accepts, commands, drop_site_id0, drop_site_id1, i) ==
    IF i > Len(commands) THEN accepts
    ELSE LET command == commands[i]
             resource_id == IF command.resource_out = -1
                            THEN command.resource_in
                            ELSE command.resource_out
             accepts0 == IF drop_site_id0 > -1
                         THEN AddOnce(accepts, DictGet(building_lines, drop_site_id0),
                                      resource_id)
                         ELSE accepts
             accepts1 == IF drop_site_id1 > -1
                         THEN AddOnce(accepts0, DictGet(building_lines, drop_site_id1),
                                      resource_id)
                         ELSE accepts0
         IN  IF command.type \in {5, 110}
             THEN AcceptResources(accepts1, commands, drop_site_id0, drop_site_id1, i + 1)
             ELSE AcceptResources(accepts, commands, drop_site_id0, drop_site_id1, i + 1)

RECURSIVE LinkDropsitesOfUnits(_, _, _)
\* the loop over the units of the villager variants from position i, on
\* [accepts_resources, error]; a drop site that is no building line is a
\* KeyError
LinkDropsitesOfUnits(st, unit_ids, i) ==
    IF i > Len(unit_ids) \/ st.error # <<>> THEN st
    ELSE LET unit == genie_units[unit_ids[i]]
             drop_site_id0 == unit.drop_site0
             drop_site_id1 == unit.drop_site1
         IN  IF drop_site_id0 > -1 /\ ~DictHas(building_lines, drop_site_id0)
             THEN [st EXCEPT !.error = <<"KeyError", drop_site_id0>>]
             ELSE IF drop_site_id1 > -1 /\ ~DictHas(building_lines, drop_site_id1)
             THEN [st EXCEPT !.error = <<"KeyError", drop_site_id1>>]
             ELSE LinkDropsitesOfUnits(
                    [st EXCEPT !.accepts_resources =
                        AcceptResources(@, unit.unit_commands, drop_site_id0,
                                        drop_site_id1, 1)],
                    unit_ids, i + 1)

RECURSIVE VariantUnits(_, _)
\* the units of villager.variants from variant i on, in loop order
VariantUnits(variants, i) ==
    IF i > Len(variants) THEN <<>>
    ELSE line[variants[i]] \o VariantUnits(variants, i + 1)

RECURSIVE LinkDropsitesOfVillagers(_, _, _)
\* the loop over villager_groups.values() from position i
LinkDropsitesOfVillagers(st, villagers, i) ==
    IF i > Len(villagers) \/ st.error # <<>> THEN st
    ELSE LinkDropsitesOfVillagers(
             LinkDropsitesOfUnits(st, VariantUnits(villager_variants, 1), 1),
             villagers, i + 1)

LinkResourcesToDropsites ==
    /\ pc = "link_resources_to_dropsites"
    /\ LET st == LinkDropsitesOfVillagers(
                     [accepts_resources |-> accepts_resources, error |-> <<>>],
                     DictValues(villager_groups), 1)
       IN  /\ accepts_resources' = st.accepts_resources
           /\ error' = st.error
           /\ pc' = IF st.error # <<>> THEN AfterRaise("link_resources_to_dropsites")
                    ELSE PassAfter("link_resources_to_dropsites")
           /\ executed' = IF st.error # <<>> THEN executed
                           ELSE Append(executed, "link_resources_to_dropsites")
    /\ UNCHANGED <<creates, garrison_locations, garrison_entities, researches,
                   civ_bonus_techs, unique_entities, unique_techs, trading_lines>>
    /\ UNCHANGED <<rawVars, genie_effect_bundles, idx, lineVars, auxVars,
                   techVars, civ_groups>>

----------------------------------------------------------------------------
(* _link_garrison *)

\* the NATURAL-mode bitmask checks: TRUE when the line is skipped
NaturalSkips(creatable_type, garrison_type, class_id) ==
    \/ creatable_type = 1 /\ ~BitSet(garrison_type, 1)
    \/ creatable_type = 2 /\ ~BitSet(garrison_type, 2)
    \/ creatable_type = 2 /\ class_id \in SiegeClasses
    \/ creatable_type = 3 /\ ~BitSet(garrison_type, 4)
    \/ creatable_type = 6 /\ ~BitSet(garrison_type, 8)

\* the tests of the inner loop without the two that keep siege lines out of
\* unit garrisons and ships out of the garrisons that do not produce them
FitsGarrisonByTypeOnly(garrison, unit_line) ==
    LET garrison_mode == GetGarrisonMode(line, garrison)
        garrison_type == IF garrison_mode = "NATURAL"
                         THEN GroupHeadUnit(line, garrison).garrison_type
                         ELSE 0
        head_unit == GroupHeadUnit(line, unit_line)
        creatable_type == head_unit.creatable_type
        trait == head_unit.trait
        class_id == GetClassId(line, unit_line)
    IN  /\ ~(creatable_type \notin GarrisonModeValue(garrison_mode) /\ ~BitSet(trait, 2))
        /\ ~(garrison_mode = "NATURAL"
             /\ NaturalSkips(creatable_type, garrison_type, class_id))
        /\ ~(garrison_mode = "SELF_PRODUCED"
             /\ ~Contains(ListOf(creates, garrison), unit_line))

\* whether the inner loop reaches the two appends for (garrison, unit_line)
FitsGarrison(garrison, unit_line) ==
    LET garrison_mode == GetGarrisonMode(line, garrison)
        garrison_type == IF garrison_mode = "NATURAL"
                         THEN GroupHeadUnit(line, garrison).garrison_type
                         ELSE 0
        head_unit == GroupHeadUnit(line, unit_line)
        creatable_type == head_unit.creatable_type
        trait == head_unit.trait
        class_id == GetClassId(line, unit_line)
    IN  /\ ~(creatable_type \notin GarrisonModeValue(garrison_mode) /\ ~BitSet(trait, 2))
        /\ ~(garrison_mode = "NATURAL"
             /\ NaturalSkips(creatable_type, garrison_type, class_id))
        /\ ~(garrison_mode = "UNIT_GARRISON" /\ class_id \in SiegeClasses)
        /\ ~(garrison_mode = "SELF_PRODUCED"
             /\ ~Contains(ListOf(creates, garrison), unit_line))
        /\ ~(BitSet(trait, 2) /\ garrison_mode # "SELF_PRODUCED")

\* whether the relic loop reaches the two appends for an ambient group
IsRelic(ambient_group) == GroupHeadUnit(line, ambient_group).creatable_type = 4

\* garrison_lines: unit_lines updated with building_lines
GarrisonLines == DictValues(DictUpdateAll(unit_lines, building_lines, 1))

\* the (garrison, stored group) pairs in the order the loops link them
GarrisonPairsOf(garrison) ==
    IF ~IsGarrison(line, garrison) THEN <<>>
    ELSE LET fitting == SelectSeq(DictValues(unit_lines),
                                  LAMBDA unit_line : FitsGarrison(garrison, unit_line))
             relics == IF GetGarrisonMode(line, garrison) = "MONK"
                       THEN SelectSeq(DictValues(ambient_groups), IsRelic)
                       ELSE <<>>
         IN  [i \in DOMAIN (fitting \o relics) |-> <<garrison, (fitting \o relics)[i]>>]

RECURSIVE GarrisonPairs(_, _)
GarrisonPairs(garrisons, i) ==
    IF i > Len(garrisons) THEN <<>>
    ELSE GarrisonPairsOf(garrisons[i]) \o GarrisonPairs(garrisons, i + 1)

RECURSIVE AppendLocationsOfUnitLines(_, _, _)
\* the relic loop without its append to garrison_locations
AppendLocationsOfUnitLines(locations, pairs, i) ==
    IF i > Len(pairs) THEN locations
    ELSE IF pairs[i][2][1] = "Ambient"
    THEN AppendLocationsOfUnitLines(locations, pairs, i + 1)
    ELSE AppendLocationsOfUnitLines(
             (pairs[i][2] :> Append(ListOf(locations, pairs[i][2]), pairs[i][1]))
                 @@ locations,
             pairs, i + 1)

RECURSIVE AppendLocations(_, _, _)
\* <stored group>.garrison_locations.append(garrison), for the pairs from i on
AppendLocations(locations, pairs, i) ==
    IF i > Len(pairs) THEN locations
    ELSE AppendLocations(
             (pairs[i][2] :> Append(ListOf(locations, pairs[i][2]), pairs[i][1]))
                 @@ locations,
             pairs, i + 1)

RECURSIVE AppendEntities(_, _, _)
\* garrison.garrison_entities.append(<stored group>), for the pairs from i on
AppendEntities(entities, pairs, i) ==
    IF i > Len(pairs) THEN entities
    ELSE AppendEntities(
             (pairs[i][1] :> Append(ListOf(entities, pairs[i][1]), pairs[i][2]))
                 @@ entities,
             pairs, i + 1)

LinkGarrison ==
    /\ pc = "link_garrison"
    /\ LET pairs == GarrisonPairs(GarrisonLines, 1)
       IN  /\ garrison_locations' = AppendLocations(garrison_locations, pairs, 1)
           /\ garrison_entities' = AppendEntities(garrison_entities, pairs, 1)
    /\ pc' = PassAfter("link_garrison")
    /\ executed' = Append(executed, "link_garrison")
    /\ UNCHANGED <<rawVars, genie_effect_bundles, idx, error, lineVars, auxVars,
                   techVars, civ_groups, creates, otherLinks>>

----------------------------------------------------------------------------
(* _link_trade_posts *)

RECURSIVE TradePostId(_, _)
\* the search of the head unit's commands from position i for the trade
\* command: its unit_id, or -1
TradePostId(unit_commands, i) ==
    IF i > Len(unit_commands) THEN -1
    ELSE IF unit_commands[i].type # 111 THEN TradePostId(unit_commands, i + 1)
    ELSE unit_commands[i].unit_id

RECURSIVE LinkTradingLines(_, _, _)
\* the loop over unit_lines.values() from position i, on
\* [trading_lines, error]; a trade post that is no building line is a KeyError
LinkTradingLines(st, lines, i) ==
    IF i > Len(lines) \/ st.error # <<>> THEN st
    ELSE LET unit_line == lines[i]
             trade_post_id ==
                 TradePostId(GroupHeadUnit(line, unit_line).unit_commands, 1)
         IN  IF ~HasCommand(unit_line, 111)
             THEN LinkTradingLines(st, lines, i + 1)
             ELSE IF ~DictHas(building_lines, trade_post_id)
             THEN [st EXCEPT !.error = <<"KeyError", trade_post_id>>]
             ELSE LinkTradingLines(
                    [st EXCEPT !.trading_lines =
                        AddOnce(@, DictGet(building_lines, trade_post_id), unit_line)],
                    lines, i + 1)

LinkTradePosts ==
    /\ pc = "link_trade_posts"
    /\ LET st == LinkTradingLines([trading_lines |-> trading_lines, error |-> <<>>],
                                  DictValues(unit_lines), 1)
       IN  /\ trading_lines' = st.trading_lines
           /\ error' = st.error
           /\ pc' = IF st.error # <<>> THEN AfterRaise("link_trade_posts")
                    ELSE PassAfter("link_trade_posts")
           /\ executed' = IF st.error # <<>> THEN executed
                           ELSE Append(executed, "link_trade_posts")
    /\ UNCHANGED <<creates, garrison_locations, garrison_entities, researches,
                   civ_bonus_techs, unique_entities, unique_techs,
                   accepts_resources>>
    /\ UNCHANGED <<rawVars, genie_effect_bundles, idx, lineVars, auxVars,
                   techVars, civ_groups>>

----------------------------------------------------------------------------
(* The end of _processor, _post_processor and the return of convert *)

\* AoCPregenSubprocessor.generate(full_data_set), then _processor returns
Pregen ==
    /\ pc = "pregen"
    /\ pc' = PassAfter("pregen")
    /\ executed' = Append(executed, "pregen")
    /\ UNCHANGED <<rawVars, genie_effect_bundles, idx, error, lineVars, auxVars,
                   techVars, civ_groups, linkVars>>

\* the nyan and media subprocessors and get_modpacks: convert returns the
\* modpacks
PostProcessor ==
    /\ pc = "post_processor"
    /\ pc' = PassAfter("post_processor")
    /\ executed' = Append(executed, "post_processor")
    /\ UNCHANGED <<rawVars, genie_effect_bundles, idx, error, lineVars, auxVars,
                   techVars, civ_groups, linkVars>>

----------------------------------------------------------------------------
(* The pipeline: convert calls _pre_processor, _processor and              *)
(* _post_processor, which call the passes in order; an exception raised by *)
(* a pass is caught nowhere and ends convert.                              *)

Next ==
    \/ SanitizeEffectBundles
    \/ CreateUnitLinesStep
    \/ CreateUnitLinesStore
    \/ CreateExtraUnitLines
    \/ CreateBuildingLinesStep
    \/ CreateBuildingLinesEnd
    \/ CreateVillagerGroups
    \/ CreateAmbientGroups
    \/ CreateVariantGroups
    \/ CreateTerrainGroups
    \/ CreateTechGroupsTechStep
    \/ CreateTechGroupsTechEnd
    \/ CreateTechGroupsUnitStep
    \/ CreateTechGroupsRest
    \/ CreateCivGroups
    \/ LinkBuildingUpgrades
    \/ LinkCreatables
    \/ LinkResearchables
    \/ LinkCivUniques
    \/ LinkResourcesToDropsites
    \/ LinkGarrison
    \/ LinkTradePosts
    \/ Pregen
    \/ PostProcessor

(* Input families: each varies one part of the raw data of BaseScenario *)

\* bundle 1 holds any list of at most MaxEffects effects
SanitizerEffects ==
    {Effect(t, 40, 41, d) : t \in {-1, 0, EffectUpgrade, EffectDisableTech}, d \in {-1, 1}}

SanitizerScenarios ==
    {[BaseScenario EXCEPT !.bundles = [BaseBundles EXCEPT ![1] = RawBundle(effects)]] :
        effects \in SeqsUpTo(SanitizerEffects, MaxEffects)}

\* unit connections of units 1..3 in any order; unit 3 carries a villager task
\* group; the cross-references name the other two units and a building
OtherUnits(id) == SetToSortedSeq(UnitConnIds \ {id})

UnitRefChoices(id) ==
    LET p == OtherUnits(id)[1]
        q == OtherUnits(id)[2]
    IN  { [types |-> <<>>, ids |-> <<>>],
          [types |-> <<ConnUnit>>, ids |-> <<p>>],
          [types |-> <<ConnBuilding, ConnUnit>>, ids |-> <<40, p>>],
          [types |-> <<ConnUnit, ConnUnit>>, ids |-> <<q, p>>],
          [types |-> <<ConnBuilding, ConnTech, ConnUnit>>, ids |-> <<40, 0, p>>] }

UnitConnChoices(id, lines) ==
    {UnitConnection(id, l, m, r.types, r.ids, -1, -1) :
        l \in lines, m \in {LineModeFirst, LineModeMid}, r \in UnitRefChoices(id)}

\* all sequences that take their i-th element from choices[i]
RECURSIVE Product(_)
Product(choices) ==
    IF choices = <<>> THEN {<<>>}
    ELSE {<<c>> \o rest : c \in Head(choices), rest \in Product(Tail(choices))}

UnitTables(lines3) ==
    UNION {Product([i \in 1..Len(order) |->
                       UnitConnChoices(order[i], IF order[i] = 3 THEN lines3 ELSE {5})]) :
           order \in DistinctSeqs(UnitConnIds, MaxConn)}

UnitLineScenarios ==
    {[BaseScenario EXCEPT
         !.units = [BaseUnits EXCEPT ![3].task_group = 1],
         !.uconns = t] : t \in UnitTables({5, MonkLineId})}

\* building connections of the buildings 40..42 in any order; techs 1 and 2
\* carry upgrade effects on them, 41 may be a stack building and 42 the head
\* unit of a stack
BuildingRefChoices ==
    { [types |-> <<>>, ids |-> <<>>],
      [types |-> <<ConnBuilding>>, ids |-> <<40>>],
      [types |-> <<ConnTech>>, ids |-> <<2>>],
      [types |-> <<ConnTech, ConnBuilding>>, ids |-> <<2, 40>>],
      [types |-> <<ConnBuilding, ConnTech, ConnTech>>, ids |-> <<40, 1, 2>>],
      [types |-> <<ConnTech, ConnTech, ConnBuilding>>, ids |-> <<1, 2, 41>>],
      [types |-> <<ConnTech, ConnBuilding>>, ids |-> <<2, 41>>] }

BuildingConnChoices(id) ==
    {BuildingConnection(id, r.types, r.ids) : r \in BuildingRefChoices}

BuildingTables ==
    UNION {Product([i \in 1..Len(order) |-> BuildingConnChoices(order[i])]) :
           order \in DistinctSeqs(BuildingIds, MaxConn)}

BuildingLineBundles ==
    [BaseBundles EXCEPT
        ![1] = RawBundle(<<Effect(EffectUpgrade, 41, 42, -1)>>),
        ![2] = RawBundle(<<Effect(-1, 0, 0, 0), Effect(EffectUpgrade, 40, 41, -1),
                           Effect(EffectUpgrade, 40, 42, -1)>>)]

BuildingLineScenarios ==
    {[BaseScenario EXCEPT
         !.units = [BaseUnits EXCEPT ![41].stack_unit_id = stack,
                                     ![42].head_unit_id = head],
         !.bundles = BuildingLineBundles,
         !.bconns = t] :
        t \in BuildingTables, stack \in {-1, 455}, head \in {-1, 40}}

\* (required_research, enabling_research) of a unit connection: none, or one
\* of the two set
ResearchChoices == {<<-1, -1>>, <<1, -1>>, <<-1, 1>>}

\* tech connections of the techs 0..3 in any order, the researches and line
\* modes of the units 1 and 2 and the tech initiated by building 40
TechConnChoices(id) ==
    { TechConnection(id, <<>>, LineModeMid, <<>>, <<>>),
      TechConnection(id, <<41>>, LineModeMid, <<>>, <<>>),
      TechConnection(id, <<>>, LineModeAge, <<ConnBuilding, ConnAge>>, <<40, 1>>),
      TechConnection(id, <<>>, LineModeAge, <<ConnBuilding>>, <<40>>),
      TechConnection(id, <<41>>, LineModeAge, <<ConnBuilding, ConnAge, ConnAge>>,
                     <<40, 2, 3>>) }

TechTables ==
    UNION {Product([i \in 1..Len(order) |-> TechConnChoices(order[i])]) :
           order \in DistinctSeqs(TechIds, MaxTechConn)}

TechBundles ==
    [BaseBundles EXCEPT
        ![3] = RawBundle(<<Effect(EffectUnlock, 41, -1, -1),
                           Effect(EffectUnlock, 42, -1, -1)>>)]

TechScenarios ==
    {[BaseScenario EXCEPT
         !.units = [BaseUnits EXCEPT ![40].research_id = research],
         !.bundles = TechBundles,
         !.uconns = << UnitConnection(1, 5, LineModeFirst, <<>>, <<>>,
                                      first[1], first[2]),
                       UnitConnection(2, 5, line_mode, <<ConnUnit>>, <<1>>,
                                      second[1], second[2]),
                       UnitConnection(3, MonkLineId, LineModeFirst, <<>>, <<>>, -1, -1) >>,
         !.tconns = t] :
        t \in TechTables, first \in ResearchChoices, second \in ResearchChoices,
        line_mode \in {LineModeMid, 1}, research \in {-1, 1}}

\* the fields of the head units that _link_creatables and _link_garrison read;
\* the age-up upgrades building 40 to 41, which tech 2 has put in line 40
GarrisonScenarios ==
    {[BaseScenario EXCEPT
         !.bundles = [BaseBundles EXCEPT
                         ![0] = RawBundle(<<Effect(EffectUpgrade, 40, 41, -1)>>)],
         !.units = [BaseUnits EXCEPT
                       ![1].creatable_type = creatable_type,
                       ![1].trait = trait,
                       ![1].class_id = class_id,
                       ![1].garrison_mode = unit_mode,
                       ![1].train_location_id = train_location_id,
                       ![40].garrison_mode = building_mode,
                       ![40].garrison_type = garrison_type]] :
        creatable_type \in {1, 2, 6}, trait \in {0, 2}, class_id \in {0, 13},
        unit_mode \in {"NONE", "UNIT_GARRISON"}, train_location_id \in {-1, 40, 41},
        building_mode \in {"NONE", "NATURAL", "SELF_PRODUCED"},
        garrison_type \in {0, 1, 2, 3, 8}}

\* the fields the linkers of researchables, civ uniques, drop sites and trade
\* posts read: the civilization, research location and mode of techs 2 and 3,
\* the research enabling unit 1, a trade command of unit 1 and the drop site
\* and gather commands of villager 83
LinkerScenarios ==
    {[BaseScenario EXCEPT
         !.techs = [BaseTechs EXCEPT
                       ![2].civilization_id = civ2,
                       ![2].research_location_id = loc2,
                       ![2].full_tech_mode = full2,
                       ![3].civilization_id = civ3,
                       ![3].research_location_id = loc3,
                       ![3].full_tech_mode = full3],
         !.uconns = [BaseUnitConnections EXCEPT ![1].enabling_research = enabling],
         !.units = [BaseUnits EXCEPT
                       ![1].unit_commands = <<Command(3, -1, -1, -1),
                                              Command(111, -1, -1, 40)>>,
                       ![83].drop_site0 = 40,
                       ![83].unit_commands = <<Command(5, -1, 1, -1),
                                               Command(110, 2, -1, -1),
                                               Command(7, 3, 3, -1)>>]] :
        civ2 \in 0..3, loc2 \in {-1, 0, 40}, full2 \in BOOLEAN,
        civ3 \in 0..3, loc3 \in {-1, 0, 40}, full3 \in BOOLEAN,
        enabling \in {-1, 3}}

\* the fields that decide the kind of a new unit line: the line ids of the
\* units 1 and 2, their transform unit and their task group; a unit is first
\* in line or follows the other unit
UnitKindChoices(id) ==
    {UnitConnection(id, line_id, c[1], c[2], c[3], -1, -1) :
        line_id \in {5, MonkLineId},
        c \in {<<LineModeFirst, <<>>, <<>>>>,
               <<LineModeMid, <<ConnUnit>>, <<3 - id>>>>}}

UnitKindTables ==
    UNION {Product([i \in 1..Len(order) |-> UnitKindChoices(order[i])]) :
           order \in DistinctSeqs({1, 2}, 2)}

UnitKindScenarios ==
    {[BaseScenario EXCEPT
         !.units = [BaseUnits EXCEPT
                       ![1].transform_unit_id = transform1,
                       ![1].task_group = task_group1,
                       ![2].transform_unit_id = transform2,
                       ![2].task_group = task_group2],
         !.uconns = t] :
        t \in UnitKindTables, transform1 \in {-1, 0}, task_group1 \in {0, 1},
        transform2 \in {-1, 0}, task_group2 \in {0, 1}}

\* the drop sites and commands of the villagers 83 and 293: the commands of
\* unit 83 are any list of at most MaxCommands of four commands, its drop sites are
\* unset, a building line (40, 42) or a building that is no line (41)
DropsiteScenarios ==
    {[BaseScenario EXCEPT
         !.bconns = Append(BaseBuildingConnections, BuildingConnection(42, <<>>, <<>>)),
         !.units = [BaseUnits EXCEPT
                       ![83].drop_site0 = drop_site0,
                       ![83].drop_site1 = drop_site1,
                       ![83].unit_commands = commands,
                       ![293].drop_site0 = 42,
                       ![293].unit_commands = <<Command(5, 0, -1, -1)>>]] :
        drop_site0 \in {-1, 40}, drop_site1 \in {-1, 40, 41, 42},
        commands \in SeqsUpTo({Command(5, -1, 1, -1), Command(110, 2, -1, -1),
                                Command(110, 2, 3, -1), Command(7, 3, 3, -1)},
                               MaxCommands)}

InitSanitizer == \E s \in SanitizerScenarios : InitFrom(s)

InitUnitLines == \E s \in UnitLineScenarios : InitFrom(s)

InitBuildingLines == \E s \in BuildingLineScenarios : InitFrom(s)

InitTechGroups == \E s \in TechScenarios : InitFrom(s)

InitGarrison == \E s \in GarrisonScenarios : InitFrom(s)

InitLinkers == \E s \in LinkerScenarios : InitFrom(s)

InitUnitKinds == \E s \in UnitKindScenarios : InitFrom(s)

InitDropsites == \E s \in DropsiteScenarios : InitFrom(s)

Init ==
    \/ InitSanitizer
    \/ InitUnitLines
    \/ InitBuildingLines
    \/ InitTechGroups
    \/ InitGarrison
    \/ InitLinkers
    \/ InitUnitKinds
    \/ InitDropsites

Spec == Init /\ [][Next]_vars

SpecSanitizer == InitSanitizer /\ [][Next]_vars

SpecUnitLines == InitUnitLines /\ [][Next]_vars

SpecBuildingLines == InitBuildingLines /\ [][Next]_vars

SpecTechGroups == InitTechGroups /\ [][Next]_vars

SpecGarrison == InitGarrison /\ [][Next]_vars

SpecLinkers == InitLinkers /\ [][Next]_vars

SpecUnitKinds == InitUnitKinds /\ [][Next]_vars

SpecDropsites == InitDropsites /\ [][Next]_vars

----------------------------------------------------------------------------
(* Properties of _sanitize_effect_bundles *)

\* an effect with a kind and, if it disables a tech, a tech to disable
IsValidEffect(effect) ==
    effect.type_id >= 0 /\ ~(effect.type_id = EffectDisableTech /\ effect.attr_d < 0)

\* C6: once _sanitize_effect_bundles has run, every bundle is marked
\* sanitized and holds exactly the raw effects whose type_id is not negative
\* and that are not a kind-102 effect with a negative attr_d, in their
\* original order, under the keys 0..n-1.
SanitizedBundlesHoldValidEffects ==
    pc # "sanitize_effect_bundles" =>
        \A b \in DOMAIN genie_effect_bundles :
            LET raw == DictValues(raw_effect_bundles[b].effects)
                sanitized_effects == genie_effect_bundles[b].effects
            IN  /\ genie_effect_bundles[b].sanitized
                /\ DictValues(sanitized_effects) = SelectSeq(raw, IsValidEffect)
                /\ \A i \in DOMAIN sanitized_effects : sanitized_effects[i][1] = i - 1

\* the sanitizer has run on a bundle that lost all its effects and on a
\* bundle that kept an effect behind a dropped one
SanitizerDroppedEffects ==
    /\ pc # "sanitize_effect_bundles"
    /\ \E b \in DOMAIN genie_effect_bundles :
           /\ Len(raw_effect_bundles[b].effects) > 0
           /\ Len(genie_effect_bundles[b].effects) = 0
           /\ genie_effect_bundles[b].sanitized
    /\ \E b \in DOMAIN genie_effect_bundles :
           LET raw == DictValues(raw_effect_bundles[b].effects)
           IN  \E i, j \in DOMAIN raw :
                   i < j /\ ~IsValidEffect(raw[i]) /\ IsValidEffect(raw[j])

----------------------------------------------------------------------------
(* Properties of _create_unit_lines *)

\* the loop of _create_unit_lines has just finished an iteration
UnitLoopAfterIteration == pc = "create_unit_lines" /\ idx > 1

\* the members of the line a unit connection names
MembersOfLine(connection) ==
    line[DictGet(pre_unit_lines, connection.vertical_line)]

\* x is directly followed by y in l
DirectlyFollows(l, x, y) ==
    \E k \in 1..(Len(l) - 1) : l[k] = x /\ l[k + 1] = y

\* the connection has an entry tagged Unit
HasUnitReference(connection) ==
    \E i \in DOMAIN connection.other_connections :
        connection.other_connections[i] = ConnUnit

\* the id paired with the first entry tagged Unit
FirstUnitReference(connection) ==
    LET first == CHOOSE i \in DOMAIN connection.other_connections :
                     /\ connection.other_connections[i] = ConnUnit
                     /\ \A j \in DOMAIN connection.other_connections :
                            connection.other_connections[j] = ConnUnit => i <= j
    IN  connection.other_connected_ids[first]

UnitWithoutPrevious ==
    /\ pc = "create_unit_lines"
    /\ idx <= Len(unit_connections)
    /\ unit_connections[idx].line_mode # LineModeFirst
    /\ ~HasUnitReference(unit_connections[idx])

\* the connection at idx names no existing line and its unit is a villager
\* (task_group > 0) that is neither a transform unit nor in the monk line
VillagerWithoutLine ==
    /\ pc = "create_unit_lines"
    /\ idx <= Len(unit_connections)
    /\ ~DictHas(pre_unit_lines, unit_connections[idx].vertical_line)
    /\ genie_units[unit_connections[idx].id].transform_unit_id <= -1
    /\ unit_connections[idx].vertical_line # MonkLineId
    /\ genie_units[unit_connections[idx].id].task_group > 0

\* the run stops with the error that names the unit at idx, which is in no line
AbortsNamingUnit ==
    /\ pc' = "failed"
    /\ error' = <<"Unit is not first in line", unit_connections[idx].id>>
    /\ \A g \in DOMAIN line' : ~Contains(line'[g], unit_connections[idx].id)

\* C8 as stated: every connection that is not first-in-line and has no entry
\* tagged Unit makes _create_unit_lines abort with an error naming the unit;
\* the unit is never skipped or added to a line.
UnitWithoutPreviousAlwaysAborts ==
    [][UnitWithoutPrevious => AbortsNamingUnit]_vars

\* C8: a connection that is not first-in-line and has no entry tagged Unit
\* makes _create_unit_lines abort with an error naming the unit, which is
\* added to no line, unless the unit is a villager whose line does not exist
\* yet: that unit is passed over without an error, before the search for its
\* predecessor.
UnitWithoutPreviousAbortsUnlessVillager ==
    [][UnitWithoutPrevious =>
          IF VillagerWithoutLine
          THEN /\ pc' = pc /\ error' = error /\ idx' = idx + 1
               /\ UNCHANGED lineVars
          ELSE AbortsNamingUnit]_vars

\* the run has aborted on a unit without predecessor whose line already held
\* a unit
AbortedOnUnitWithoutPrevious ==
    /\ pc = "failed"
    /\ idx > 1
    /\ idx <= Len(unit_connections)
    /\ error = <<"Unit is not first in line", unit_connections[idx].id>>
    /\ unit_connections[idx].line_mode # LineModeFirst
    /\ ~HasUnitReference(unit_connections[idx])
    /\ Len(MembersOfLine(unit_connections[idx])) > 0
    /\ ~Contains(MembersOfLine(unit_connections[idx]), unit_connections[idx].id)

----------------------------------------------------------------------------
(* Properties of _create_building_lines *)

\* the loop of _create_building_lines is at a building that is not the head
\* unit of a stack
BuildingLoopAtBuilding ==
    /\ pc = "create_building_lines"
    /\ idx <= Len(building_connections)
    /\ genie_units[building_connections[idx].id].head_unit_id <= -1

\* the effects of the bundle of a tech
EffectsOfTech(tech_id) ==
    DictValues(genie_effect_bundles[genie_techs[tech_id].tech_effect_id].effects)

\* the effect is a kind-3 upgrade whose attr_b is the building
IsUpgradeTo(effect, building_id) ==
    effect.type_id = EffectUpgrade /\ effect.attr_b = building_id

\* the cross-references tagged Tech whose tech has an upgrade to the building
UpgradingReferences(connection) ==
    {i \in DOMAIN connection.other_connections :
        /\ connection.other_connections[i] = ConnTech
        /\ \E k \in DOMAIN EffectsOfTech(connection.other_connected_ids[i]) :
               IsUpgradeTo(EffectsOfTech(connection.other_connected_ids[i])[k],
                           connection.id)}

\* the first such tech
UpgradingTech(connection) ==
    connection.other_connected_ids[
        CHOOSE i \in UpgradingReferences(connection) :
            \A j \in UpgradingReferences(connection) : i <= j]

\* attr_a of the first upgrade to the building in the bundle of that tech
UpgradedLineId(connection) ==
    LET effects == EffectsOfTech(UpgradingTech(connection))
        first == CHOOSE k \in DOMAIN effects :
                     /\ IsUpgradeTo(effects[k], connection.id)
                     /\ \A m \in DOMAIN effects :
                            IsUpgradeTo(effects[m], connection.id) => k <= m
    IN  effects[first].attr_a

HasBuildingReference(connection) ==
    \E i \in DOMAIN connection.other_connections :
        connection.other_connections[i] = ConnBuilding

\* the building is a member of the building line stored under line_id
InBuildingLine(lines, members, line_id, building_id) ==
    /\ DictHas(lines, line_id)
    /\ DictGet(lines, line_id)[2] = line_id
    /\ Contains(members[DictGet(lines, line_id)], building_id)

\* the dict d2 is d1 with at most the entry of key changed
SameExceptKey(d1, d2, key) ==
    \A k \in (DictKeys(d1) \cup DictKeys(d2)) \ {key} :
        DictHas(d1, k) /\ DictHas(d2, k) /\ DictGet(d1, k) = DictGet(d2, k)

\* C9: when _create_building_lines places a building that is not the head
\* unit of a stack, and a tech of its connection has a kind-3 effect with
\* attr_b = the building, the building is put in the line keyed by attr_a of
\* that effect (first such tech, first such effect) and not in the line keyed
\* by its own id, and the one BuildingLineUpgrade(tech, line, building) is
\* stored under the tech id in tech_groups and in building_upgrades; without
\* such an effect the building is put in the line keyed by its own id and
\* tech_groups and building_upgrades stay as they were.
BuildingPlacedInUpgradedLine ==
    [][(BuildingLoopAtBuilding /\ pc' # "failed") =>
          LET connection == building_connections[idx]
              building_id == connection.id
          IN  IF UpgradingReferences(connection) # {}
              THEN LET tech_id == UpgradingTech(connection)
                       line_id == UpgradedLineId(connection)
                       upgrade == [kind |-> "BuildingLineUpgrade", id |-> tech_id,
                                   a |-> line_id, b |-> building_id]
                   IN  /\ InBuildingLine(building_lines', line', line_id, building_id)
                       /\ line_id # building_id =>
                              ~InBuildingLine(building_lines', line', building_id,
                                              building_id)
                       /\ DictHas(tech_groups', tech_id)
                       /\ DictGet(tech_groups', tech_id) = upgrade
                       /\ DictHas(building_upgrades', tech_id)
                       /\ DictGet(building_upgrades', tech_id) = upgrade
                       /\ SameExceptKey(tech_groups, tech_groups', tech_id)
                       /\ SameExceptKey(building_upgrades, building_upgrades', tech_id)
              ELSE /\ InBuildingLine(building_lines', line', building_id, building_id)
                   /\ tech_groups' = tech_groups
                   /\ building_upgrades' = building_upgrades]_vars

\* the last iteration put a building behind another one in the line of its
\* upgrade, found in the second tech of its connection, and recorded the
\* BuildingLineUpgrade
BuildingJoinedUpgradedLine ==
    /\ pc = "create_building_lines"
    /\ idx > 1
    /\ LET connection == building_connections[idx - 1]
       IN  /\ genie_units[connection.id].head_unit_id <= -1
           /\ UpgradingReferences(connection) # {}
           /\ \E i \in DOMAIN connection.other_connections :
                  /\ connection.other_connections[i] = ConnTech
                  /\ i \notin UpgradingReferences(connection)
                  /\ \A j \in UpgradingReferences(connection) : i < j
           /\ UpgradedLineId(connection) # connection.id
           /\ InBuildingLine(building_lines, line, UpgradedLineId(connection),
                             connection.id)
           /\ Len(line[DictGet(building_lines, UpgradedLineId(connection))]) > 1
           /\ DictHas(building_upgrades, UpgradingTech(connection))
           /\ DictGet(building_upgrades, UpgradingTech(connection)).b = connection.id

\* C10: when the line of the building at hand is resolved through a kind-3
\* effect and its connection has no cross-reference tagged Building,
\* _create_building_lines aborts with an error naming the building; no
\* BuildingLineUpgrade is recorded for the building and no line holds it.
UpgradedBuildingWithoutPreviousAborts ==
    [][(/\ BuildingLoopAtBuilding
        /\ UpgradingReferences(building_connections[idx]) # {}
        /\ ~HasBuildingReference(building_connections[idx])) =>
          LET building_id == building_connections[idx].id
          IN  /\ pc' = "failed"
              /\ error' = <<"Building is not first in line", building_id>>
              /\ \A i \in DOMAIN tech_groups' :
                     ~(tech_groups'[i][2].kind = "BuildingLineUpgrade"
                       /\ tech_groups'[i][2].b = building_id)
              /\ \A i \in DOMAIN building_upgrades' :
                     building_upgrades'[i][2].b # building_id
              /\ \A g \in DOMAIN line' : ~Contains(line'[g], building_id)
              /\ ~DictHas(unit_ref', building_id)]_vars

\* the run has aborted on an upgraded building without previous building
\* whose line exists already
AbortedOnBuildingWithoutPrevious ==
    /\ pc = "failed"
    /\ idx > 1
    /\ idx <= Len(building_connections)
    /\ error = <<"Building is not first in line", building_connections[idx].id>>
    /\ UpgradingReferences(building_connections[idx]) # {}
    /\ ~HasBuildingReference(building_connections[idx])
    /\ DictHas(building_lines, UpgradedLineId(building_connections[idx]))
    /\ building_upgrades = <<>>

----------------------------------------------------------------------------
(* Properties of _link_garrison *)

\* B is in the garrison_locations of A / A is in the garrison_entities of B
HasGarrisonLocation(A, B) == Contains(ListOf(garrison_locations, A), B)

HasGarrisonEntity(B, A) == Contains(ListOf(garrison_entities, B), A)

\* the groups that hold members or links
AllGroups ==
    DOMAIN line \cup DOMAIN garrison_locations \cup DOMAIN garrison_entities

\* C4: after _link_garrison, for all groups A and B, A is in the
\* garrison_entities of B exactly if B is in the garrison_locations of A;
\* the relic ambient groups linked to the monk garrisons are among them.
GarrisonLinkageSymmetric ==
    pc = "done" =>
        \A A \in AllGroups, B \in AllGroups :
            HasGarrisonEntity(B, A) <=> HasGarrisonLocation(A, B)

\* _link_garrison has linked a unit line to a building line and a relic to
\* the monks, and has refused the unit line as an entity of the monks
GarrisonLinked ==
    /\ pc = "done"
    /\ \E A \in AllGroups, B \in AllGroups :
           /\ A[1] = "UnitLine" /\ B[1] = "BuildingLine"
           /\ HasGarrisonEntity(B, A) /\ HasGarrisonLocation(A, B)
    /\ \E A \in AllGroups, B \in AllGroups :
           /\ A[1] = "Ambient" /\ B[1] = "Monk"
           /\ HasGarrisonEntity(B, A) /\ HasGarrisonLocation(A, B)
    /\ \E A \in AllGroups, B \in AllGroups :
           /\ A[1] = "UnitLine" /\ B[1] = "Monk"
           /\ ~HasGarrisonEntity(B, A) /\ ~HasGarrisonLocation(A, B)

----------------------------------------------------------------------------
(* Properties of the whole pipeline *)

\* _link_building_upgrades has run
AfterLinkBuildingUpgrades ==
    /\ Contains(executed, "link_building_upgrades")
    /\ pc # "failed"

\* _create_building_lines and _create_tech_groups have run
AfterTechGroups ==
    /\ Contains(executed, "create_tech_groups")
    /\ pc # "failed"

\* the ids of the connections the line builders did not pass over: units
\* outside the villager task groups, buildings that are no stack head unit
ConsumedIds ==
    {unit_connections[i].id : i \in {j \in DOMAIN unit_connections :
        genie_units[unit_connections[j].id].task_group <= 0}}
    \cup
    {building_connections[i].id : i \in {j \in DOMAIN building_connections :
        genie_units[building_connections[j].id].head_unit_id <= -1}}

\* the line groups that hold the unit
LinesOf(unit_id) ==
    {g \in DOMAIN line :
        g[1] \notin {"TaskGroup", "Villager"} /\ Contains(line[g], unit_id)}

\* C1 as stated: after the builders and _link_building_upgrades, the id of
\* every consumed unit or building connection is a member of exactly one
\* line group.
ConsumedIdsInExactlyOneLine ==
    AfterLinkBuildingUpgrades =>
        \A unit_id \in ConsumedIds : Cardinality(LinesOf(unit_id)) = 1

\* the kind-specific indices of the tech groups
TechIndices ==
    <<age_upgrades, unit_unlocks, unit_upgrades, building_unlocks,
      building_upgrades, stat_upgrades, initiated_techs, civ_boni>>

IndicesOf(tech_id) == {k \in DOMAIN TechIndices : DictHas(TechIndices[k], tech_id)}

\* C2 as stated: after _create_building_lines and _create_tech_groups, no
\* tech id is a key of more than one of the kind-specific indices.
TechKindsExclusive ==
    AfterTechGroups =>
        \A tech_id \in DOMAIN genie_techs : Cardinality(IndicesOf(tech_id)) <= 1

\* C3 as stated: after _create_building_lines and _create_tech_groups, every
\* tech id of genie_techs is a key of tech_groups.
TechKindsTotal ==
    AfterTechGroups =>
        \A tech_id \in DOMAIN genie_techs : DictHas(tech_groups, tech_id)

----------------------------------------------------------------------------
(* Properties of the civ boni *)

\* the techs the claim names: of a civilization, researched nowhere, not in
\* full tech mode
IsPassiveBonusTech(tech_id) ==
    /\ genie_techs[tech_id].civilization_id > 0
    /\ genie_techs[tech_id].research_location_id <= 0
    /\ genie_techs[tech_id].full_tech_mode = FALSE

\* the CivBonus groups of a tech among the values of a dict
CivBoniOf(d, tech_id) ==
    SelectSeq(DictValues(d), LAMBDA g : g.kind = "CivBonus" /\ g.id = tech_id)

\* the civ groups that hold a CivBonus of the tech
CivGroupsHolding(tech_id) ==
    {c \in SeqToSet(DictValues(civ_groups)) :
        \E i \in DOMAIN ListOf(civ_bonus_techs, c) :
            /\ ListOf(civ_bonus_techs, c)[i].kind = "CivBonus"
            /\ ListOf(civ_bonus_techs, c)[i].id = tech_id}

\* C11: once _create_tech_groups has run, a tech has a CivBonus group exactly
\* when its civilization_id is positive, its research_location_id is not
\* positive and it is not in full tech mode; civ_boni then holds one CivBonus
\* for it, under the tech's id and with the tech's civilization; and once
\* _link_civ_uniques has run, that group is attached once to the civ group of
\* that civilization and to no other civ group.
CivBonusExactlyForPassiveCivTechs ==
    /\ Contains(executed, "create_tech_groups") =>
           \A t \in DOMAIN genie_techs :
               /\ DictHas(civ_boni, t) <=> IsPassiveBonusTech(t)
               /\ Len(CivBoniOf(tech_groups, t)) = IF IsPassiveBonusTech(t) THEN 1 ELSE 0
               /\ Len(CivBoniOf(civ_boni, t)) = IF IsPassiveBonusTech(t) THEN 1 ELSE 0
               /\ IsPassiveBonusTech(t) =>
                      /\ Cardinality({i \in DOMAIN civ_boni : civ_boni[i][1] = t}) = 1
                      /\ DictGet(civ_boni, t) =
                             TechGroup("CivBonus", t, genie_techs[t].civilization_id, None)
                      /\ DictGet(tech_groups, t) = DictGet(civ_boni, t)
    /\ Contains(executed, "link_civ_uniques") =>
           \A t \in DOMAIN genie_techs :
               /\ CivGroupsHolding(t) =
                      IF IsPassiveBonusTech(t)
                      THEN {DictGet(civ_groups, genie_techs[t].civilization_id)}
                      ELSE {}
               /\ IsPassiveBonusTech(t) =>
                      Count(ListOf(civ_bonus_techs,
                                   DictGet(civ_groups, genie_techs[t].civilization_id)),
                            DictGet(civ_boni, t)) = 1

\* _link_civ_uniques has attached the bonus of civilization 2, next to a
\* tech of civilization 1 that is researched nowhere and is no bonus because
\* it is in full tech mode
CivBoniAttached ==
    /\ Contains(executed, "link_civ_uniques")
    /\ IsPassiveBonusTech(2) /\ genie_techs[2].civilization_id = 2
    /\ CivGroupsHolding(2) = {<<"Civ", 2>>}
    /\ genie_techs[3].civilization_id = 1
    /\ genie_techs[3].research_location_id <= 0
    /\ genie_techs[3].full_tech_mode
    /\ ~DictHas(civ_boni, 3)
    /\ CivGroupsHolding(3) = {}

----------------------------------------------------------------------------
(* Properties of the unit connection loop of _create_tech_groups *)

\* the loop over unit_connections is at a record without any research
AtUnitWithoutResearch ==
    /\ pc = "create_tech_groups_units"
    /\ idx <= Len(unit_connections)
    /\ unit_connections[idx].required_research = -1
    /\ unit_connections[idx].enabling_research = -1

\* C12: the iteration of the unit connection loop of _create_tech_groups for
\* a record whose required and enabling research are both -1 leaves
\* tech_groups, unit_unlocks and unit_upgrades as they are, whatever the
\* record's line_mode, and goes on to the next record.
UnitWithoutResearchChangesNoTechGroups ==
    [][AtUnitWithoutResearch =>
          /\ UNCHANGED <<tech_groups, unit_unlocks, unit_upgrades>>
          /\ idx' = idx + 1 /\ pc' = pc]_vars

\* the loop has passed over records without research, one first in line and
\* one of a line mode that is neither 2 nor 3, after the tech connections
\* have filled tech_groups
PassedUnitsWithoutResearch ==
    /\ pc = "create_tech_groups_units"
    /\ idx > Len(unit_connections)
    /\ tech_groups # <<>>
    /\ unit_unlocks = <<>> /\ unit_upgrades = <<>>
    /\ \A i \in DOMAIN unit_connections :
           /\ unit_connections[i].required_research = -1
           /\ unit_connections[i].enabling_research = -1
    /\ \E i \in DOMAIN unit_connections : unit_connections[i].line_mode = LineModeFirst
    /\ \E i \in DOMAIN unit_connections :
           unit_connections[i].line_mode \notin {LineModeFirst, LineModeMid}

----------------------------------------------------------------------------
(* Properties of the order of the passes *)

\* a pass is being executed
Running(pass) ==
    \/ pc = pass
    \/ pass = "create_tech_groups" /\ pc = "create_tech_groups_units"

\* a pass has been called
Started(pass) == Running(pass) \/ Contains(executed, pass)

\* the later pass is not called before the earlier one has returned
RunsAfter(later, earlier) == Started(later) => Contains(executed, earlier)

BundleReaders == {"create_building_lines", "create_tech_groups", "link_building_upgrades"}

LineAndGroupBuilders ==
    {"create_unit_lines", "create_extra_unit_lines", "create_building_lines",
     "create_villager_groups", "create_ambient_groups", "create_variant_groups",
     "create_terrain_groups"}

CrossLinkers ==
    {"link_building_upgrades", "link_creatables", "link_researchables",
     "link_civ_uniques", "link_resources_to_dropsites", "link_garrison",
     "link_trade_posts"}

\* C13: the passes run one after the other, each once: the sanitizer has
\* returned (and every bundle is marked sanitized) before a pass that reads
\* effect bundles is called; every line and group builder has returned before
\* the tech classifier is called; the building line builder has returned
\* before the building upgrades are linked; the tech classifier and the civ
\* grouper have returned before any cross-linker pass is called.
PassesRunInOrder ==
    /\ \A reader \in BundleReaders :
           /\ RunsAfter(reader, "sanitize_effect_bundles")
           /\ Running(reader) =>
                  \A b \in DOMAIN genie_effect_bundles : genie_effect_bundles[b].sanitized
    /\ \A builder \in LineAndGroupBuilders : RunsAfter("create_tech_groups", builder)
    /\ RunsAfter("link_building_upgrades", "create_building_lines")
    /\ \A linker \in CrossLinkers :
           /\ RunsAfter(linker, "create_tech_groups")
           /\ RunsAfter(linker, "create_civ_groups")
    /\ \A i, j \in DOMAIN executed : i # j => executed[i] # executed[j]
    /\ \A i \in DOMAIN executed : ~Running(executed[i])

\* convert has returned after every pass has run
AllPassesRan ==
    /\ pc = "done"
    /\ executed = Passes

----------------------------------------------------------------------------
(* Properties of a failing run *)

\* C14: there is no partial success: a step is taken only by a run in which
\* no pass has raised; the step in which a pass raises ends convert in
\* failure, and the pass does not return; nothing is executed after it, so
\* neither the remaining builders and linkers nor the pregen and
\* post-processing stages run and convert returns no modpacks.
FailureEndsTheRun ==
    [][/\ error = <<>>
       /\ pc # "failed"
       /\ error' # <<>> =>
              /\ pc' = "failed"
              /\ executed' = executed
              /\ ~Contains(executed', "post_processor")]_vars

\* the tech classifier has raised after the line and group builders had
\* filled the data set: the run has ended without the later passes
FailedInTechClassifier ==
    /\ pc = "failed"
    /\ error # <<>>
    /\ error[1] = "Tech is shown in Age progress bar"
    /\ executed = SubSeq(Passes, 1, 8)
    /\ building_lines # <<>>
    /\ civ_groups = <<>>

----------------------------------------------------------------------------
(* Properties of the two indices of the unit lines *)

\* C15: once the unit line builders and the villager group builder have run,
\* every group stored in unit_lines, the extra wildlife lines and the
\* villager group included, is also stored in unit_lines_vertical_ref, and
\* every group stored in unit_lines_vertical_ref is stored in unit_lines
\* under the id of its head unit.
UnitLinesMirrorVerticalRef ==
    (Contains(executed, "create_villager_groups") /\ pc # "failed") =>
        /\ \A group \in SeqToSet(DictValues(unit_lines)) :
               group \in SeqToSet(DictValues(unit_lines_vertical_ref))
        /\ \A group \in SeqToSet(DictValues(unit_lines_vertical_ref)) :
               /\ DictHas(unit_lines, HeadUnitId(line[group]))
               /\ DictGet(unit_lines, HeadUnitId(line[group])) = group

----------------------------------------------------------------------------
(* Properties of the keys of the indices *)

\* every key of the dict d still maps to the same group in the dict e
KeepsGroups(d, e) ==
    \A i \in DOMAIN d : DictHas(e, d[i][1]) /\ DictGet(e, d[i][1]) = d[i][2]

\* C16: a group is never replaced or deleted: once a key of tech_groups,
\* unit_lines or building_lines maps to a group, every later step leaves the
\* key mapped to that group.
GroupsAreNeverReplaced ==
    [][/\ KeepsGroups(tech_groups, tech_groups')
       /\ KeepsGroups(unit_lines, unit_lines')
       /\ KeepsGroups(building_lines, building_lines')]_vars

----------------------------------------------------------------------------
(* Properties of the linkers as operations on the data set *)

\* a pass has returned in a run that has not failed
Returned(pass) == Contains(executed, pass) /\ pc # "failed"

\* the links a second run of each linker would leave, on the data set as it is
CreatesOfSecondRun ==
    LinkBuildingCreatables(
        LinkUnitCreatables([creates |-> creates, error |-> <<>>],
                           DictValues(unit_lines), 1),
        DictValues(building_lines), 1).creates

ResearchesOfSecondRun ==
    LinkResearchablesFrom([researches |-> researches, error |-> <<>>],
                          DictValues(tech_groups), 1).researches

CivUniquesOfSecondRun ==
    LinkUniqueTechs(
        LinkUniqueLines(
            LinkUniqueLines(
                LinkCivBoni([civ_bonus_techs |-> civ_bonus_techs,
                             unique_entities |-> unique_entities,
                             unique_techs |-> unique_techs, error |-> <<>>],
                            DictValues(civ_boni), 1),
                unit_connections, DictValues(unit_lines), 1),
            building_connections, DictValues(building_lines), 1),
        DictValues(tech_groups), 1)

AcceptedOfSecondRun ==
    LinkDropsitesOfVillagers([accepts_resources |-> accepts_resources, error |-> <<>>],
                             DictValues(villager_groups), 1).accepts_resources

LocationsOfSecondRun ==
    AppendLocations(garrison_locations, GarrisonPairs(GarrisonLines, 1), 1)

EntitiesOfSecondRun ==
    AppendEntities(garrison_entities, GarrisonPairs(GarrisonLines, 1), 1)

TradingLinesOfSecondRun ==
    LinkTradingLines([trading_lines |-> trading_lines, error |-> <<>>],
                     DictValues(unit_lines), 1).trading_lines

\* C17: each linker is idempotent: run a second time on the data set it has
\* processed, _link_creatables, _link_researchables, _link_civ_uniques,
\* _link_resources_to_dropsites, _link_garrison and _link_trade_posts leave
\* every link as it is; in particular no garrison_locations or
\* garrison_entities list gets another entry.
LinkersAreIdempotent ==
    /\ Returned("link_creatables") => CreatesOfSecondRun = creates
    /\ Returned("link_researchables") => ResearchesOfSecondRun = researches
    /\ Returned("link_civ_uniques") =>
           /\ CivUniquesOfSecondRun.civ_bonus_techs = civ_bonus_techs
           /\ CivUniquesOfSecondRun.unique_entities = unique_entities
           /\ CivUniquesOfSecondRun.unique_techs = unique_techs
    /\ Returned("link_resources_to_dropsites") =>
           AcceptedOfSecondRun = accepts_resources
    /\ Returned("link_garrison") =>
           /\ LocationsOfSecondRun = garrison_locations
           /\ EntitiesOfSecondRun = garrison_entities
    /\ Returned("link_trade_posts") => TradingLinesOfSecondRun = trading_lines

\* the links each linker derives when it runs on the data set as it is with
\* no link of its own set yet; for _link_garrison the pairs it links
LinksDerived ==
    [creates |->
         LinkBuildingCreatables(
             LinkUnitCreatables([creates |-> <<>>, error |-> <<>>],
                                DictValues(unit_lines), 1),
             DictValues(building_lines), 1),
     researches |->
         LinkResearchablesFrom([researches |-> <<>>, error |-> <<>>],
                               DictValues(tech_groups), 1),
     civ_uniques |->
         LinkUniqueTechs(
             LinkUniqueLines(
                 LinkUniqueLines(
                     LinkCivBoni([civ_bonus_techs |-> <<>>, unique_entities |-> <<>>,
                                  unique_techs |-> <<>>, error |-> <<>>],
                                 DictValues(civ_boni), 1),
                     unit_connections, DictValues(unit_lines), 1),
                 building_connections, DictValues(building_lines), 1),
             DictValues(tech_groups), 1),
     accepts_resources |->
         LinkDropsitesOfVillagers([accepts_resources |-> <<>>, error |-> <<>>],
                                  DictValues(villager_groups), 1),
     garrison_pairs |-> GarrisonPairs(GarrisonLines, 1),
     trading_lines |->
         LinkTradingLines([trading_lines |-> <<>>, error |-> <<>>],
                          DictValues(unit_lines), 1)]

\* C18: the linkers are insensitive to their order: what a linker derives
\* does not depend on whether another linker has run before it, so no run of
\* a linker changes the links another linker derives; in particular
\* _link_garrison links the same pairs before and after _link_creatables and
\* _link_building_upgrades have run.
LinkersAreOrderInsensitive ==
    [][(pc \in CrossLinkers /\ pc' # "failed") => LinksDerived' = LinksDerived]_vars

----------------------------------------------------------------------------
(* Properties of the kinds of groups _create_unit_lines creates *)

\* the kind the claim gives the group of a unit whose line has no group yet
KindByPrecedence(unit, line_id) ==
    CASE unit.transform_unit_id >= 0 -> "Transform"
      [] unit.transform_unit_id < 0 /\ line_id = 65 -> "Monk"
      [] unit.transform_unit_id < 0 /\ line_id # 65 /\ unit.task_group > 0 -> "none"
      [] OTHER -> "UnitLine"

\* the groups of a line id among the values of a dict
GroupsOfLine(d, line_id) ==
    {i \in DOMAIN d : d[i][2][2] = line_id}

\* C19: an iteration of the loop of _create_unit_lines for a unit whose line
\* id has no group yet creates one group for the line, of the kind given by
\* the precedence: a transform group if the unit's transform unit id is not
\* negative; else, for line id 65, a monk group with switch unit 286; else
\* nothing at all for a unit with a positive task group, which is put in no
\* line and gets no reference; else a plain unit line. If the line id has a
\* group, the group is reused and no group is created.
UnitLineKindByPrecedence ==
    [][(pc = "create_unit_lines" /\ idx <= Len(unit_connections)) =>
          LET connection == unit_connections[idx]
              unit == genie_units[connection.id]
              line_id == connection.vertical_line
              kind == KindByPrecedence(unit, line_id)
              group == <<kind, line_id>>
          IN  IF DictHas(pre_unit_lines, line_id)
              THEN /\ pre_unit_lines' = pre_unit_lines
                   /\ transform_groups' = transform_groups
                   /\ monk_groups' = monk_groups
                   /\ DOMAIN line' = DOMAIN line
                   /\ DictGet(unit_ref', connection.id) = DictGet(pre_unit_lines, line_id)
              ELSE IF kind = "none"
              THEN /\ UNCHANGED <<pre_unit_lines, line, unit_ref, transform_groups,
                                  monk_groups, switch_unit_id, error>>
                   /\ idx' = idx + 1
              ELSE /\ pre_unit_lines' = Append(pre_unit_lines, <<line_id, group>>)
                   /\ DictGet(unit_ref', connection.id) = group
                   /\ DOMAIN line' = DOMAIN line \cup {group}
                   /\ transform_groups' =
                          IF kind = "Transform"
                          THEN Append(transform_groups, <<line_id, group>>)
                          ELSE transform_groups
                   /\ monk_groups' =
                          IF kind = "Monk"
                          THEN Append(monk_groups, <<line_id, group>>)
                          ELSE monk_groups
                   /\ kind = "Monk" => switch_unit_id'[group] = 286
                   /\ Cardinality(GroupsOfLine(pre_unit_lines', line_id)) = 1]_vars

\* the loop has made the monk group for a villager unit of line 65 and has
\* passed over a villager unit of another line
MonkBeforeVillager ==
    /\ pc = "create_unit_lines"
    /\ idx > Len(unit_connections)
    /\ \E i, j \in DOMAIN unit_connections :
           /\ unit_connections[i].vertical_line = 65
           /\ genie_units[unit_connections[i].id].task_group > 0
           /\ genie_units[unit_connections[i].id].transform_unit_id < 0
           /\ DictHas(monk_groups, 65)
           /\ switch_unit_id[DictGet(monk_groups, 65)] = 286
           /\ Contains(line[DictGet(monk_groups, 65)], unit_connections[i].id)
           /\ unit_connections[j].vertical_line # 65
           /\ genie_units[unit_connections[j].id].task_group > 0
           /\ genie_units[unit_connections[j].id].transform_unit_id < 0
           /\ ~DictHas(unit_ref, unit_connections[j].id)
           /\ ~DictHas(pre_unit_lines, unit_connections[j].vertical_line)

----------------------------------------------------------------------------
(* Properties of the tech connection loop of _create_tech_groups *)

\* the positions of the cross-references tagged Age
AgeReferences(connection) ==
    {i \in DOMAIN connection.other_connections : connection.other_connections[i] = 0}

\* the id at the position of the first cross-reference tagged Age
FirstAgeId(connection) ==
    connection.other_connected_ids[
        CHOOSE i \in AgeReferences(connection) :
            \A j \in AgeReferences(connection) : i <= j]

\* C20: the iteration of the tech connection loop for a tech of tech_type 2
\* or a connection of line_mode 0 stores AgeUpgrade(tech id, age id) in
\* tech_groups and age_upgrades, the age id being the id at the position of
\* the first cross-reference tagged Age, whatever the connected buildings and
\* the effects of the tech are; it stores no BuildingUnlock and no
\* StatUpgrade for the tech. Without a cross-reference tagged Age it aborts
\* the run with an error naming the tech and stores nothing.
AgeUpgradeTakesPrecedence ==
    [][(/\ pc = "create_tech_groups"
        /\ idx <= Len(tech_connections)
        /\ \/ genie_techs[tech_connections[idx].id].tech_type = 2
           \/ tech_connections[idx].line_mode = 0) =>
          LET connection == tech_connections[idx]
              tech_id == connection.id
          IN  IF AgeReferences(connection) = {}
              THEN /\ pc' = "failed"
                   /\ error' # <<>>
                   /\ error'[2] = tech_id
                   /\ UNCHANGED techVars
              ELSE LET age_up == TechGroup("AgeUpgrade", tech_id,
                                           FirstAgeId(connection), None)
                   IN  /\ DictHas(tech_groups', tech_id)
                       /\ DictGet(tech_groups', tech_id) = age_up
                       /\ DictHas(age_upgrades', tech_id)
                       /\ DictGet(age_upgrades', tech_id) = age_up
                       /\ SameExceptKey(tech_groups, tech_groups', tech_id)
                       /\ SameExceptKey(age_upgrades, age_upgrades', tech_id)
                       /\ UNCHANGED <<building_unlocks, stat_upgrades, error>>
                       /\ ~DictHas(building_unlocks', tech_id)
                       /\ ~DictHas(stat_upgrades', tech_id)
                       /\ idx' = idx + 1 /\ pc' = pc]_vars

\* the loop has stored the age upgrade to age 2 for tech 3, whose connection
\* has line_mode 0, a connected building and two cross-references tagged Age
\* behind one tagged Building, and whose bundle holds unlock effects
AgeUpgradeDespiteBuildings ==
    /\ pc = "create_tech_groups_units"
    /\ \E i \in DOMAIN tech_connections :
           /\ tech_connections[i].id = 3
           /\ tech_connections[i].line_mode = 0
           /\ tech_connections[i].buildings # <<>>
           /\ tech_connections[i].other_connections = <<1, 0, 0>>
           /\ tech_connections[i].other_connected_ids = <<40, 2, 3>>
    /\ Len(GetEffectsOfType(genie_effect_bundles[genie_techs[3].tech_effect_id], 2)) > 0
    /\ DictHas(age_upgrades, 3)
    /\ DictGet(age_upgrades, 3) = TechGroup("AgeUpgrade", 3, 2, None)
    /\ DictGet(tech_groups, 3) = TechGroup("AgeUpgrade", 3, 2, None)
    /\ ~DictHas(building_unlocks, 3)
    /\ ~DictHas(stat_upgrades, 3)

----------------------------------------------------------------------------
(* C21: the group emitted for a tech connection that is no age upgrade *)

\* the loop over tech_connections is at a connection that is no age upgrade
AtNonAgeTech ==
    /\ pc = "create_tech_groups"
    /\ idx <= Len(tech_connections)
    /\ genie_techs[tech_connections[idx].id].tech_type # 2
    /\ tech_connections[idx].line_mode # 0

\* the kind-2 effects of the bundle of the tech at hand
UnlockEffectsAtHand ==
    LET bundle == genie_effect_bundles[
                      genie_techs[tech_connections[idx].id].tech_effect_id]
        effects == GetEffects(bundle)
    IN  {effects[i] : i \in {j \in DOMAIN effects : effects[j].type_id = 2}}

\* the connection at hand lists buildings, its tech has no building line
\* upgrade and its bundle holds an unlock effect
IsBuildingUnlockCase ==
    /\ Len(tech_connections[idx].buildings) > 0
    /\ ~DictHas(building_upgrades, tech_connections[idx].id)
    /\ UnlockEffectsAtHand # {}

\* C21: the iteration of a tech connection that is no age upgrade stores a
\* BuildingUnlock (tech id, attr_a of one of the unlock effects) under the tech
\* id when the connection lists buildings, no building line upgrade is recorded
\* for the tech and its bundle holds a kind-2 effect, and stores a StatUpgrade
\* under the tech id in every other case.
NonAgeTechEmitsUnlockOrStatUpgrade ==
    [][AtNonAgeTech =>
          LET tech_id == tech_connections[idx].id
          IN  IF IsBuildingUnlockCase
              THEN /\ DictHas(tech_groups', tech_id)
                   /\ DictGet(tech_groups', tech_id).kind = "BuildingUnlock"
                   /\ \E e \in UnlockEffectsAtHand :
                          DictGet(tech_groups', tech_id) =
                              TechGroup("BuildingUnlock", tech_id, e.attr_a, None)
                   /\ DictHas(building_unlocks', tech_id)
              ELSE /\ DictHas(tech_groups', tech_id)
                   /\ DictGet(tech_groups', tech_id) =
                          TechGroup("StatUpgrade", tech_id, None, None)
                   /\ DictHas(stat_upgrades', tech_id)]_vars

----------------------------------------------------------------------------
(* C22: the units that get a UnitUnlock or a UnitLineUpgrade *)

\* the unit connections as a set
UnitConnectionSet == {unit_connections[i] : i \in DOMAIN unit_connections}

\* C22: every UnitUnlock is stored under the enabling research of a unit that
\* is first in line (line mode 2) and has an enabling research, every
\* UnitLineUpgrade under the required research of a unit further down the line
\* (line mode 3) that has a required research, and no tech group is stored
\* under the tech id -1.
UnitTechsKeyedByTheirResearch ==
    /\ \A i \in DOMAIN unit_unlocks :
           \E c \in UnitConnectionSet :
               /\ c.line_mode = 2
               /\ c.enabling_research # -1
               /\ unit_unlocks[i] =
                      <<c.enabling_research,
                        TechGroup("UnitUnlock", c.enabling_research,
                                  c.vertical_line, None)>>
    /\ \A i \in DOMAIN unit_upgrades :
           \E c \in UnitConnectionSet :
               /\ c.line_mode = 3
               /\ c.required_research # -1
               /\ unit_upgrades[i] =
                      <<c.required_research,
                        TechGroup("UnitLineUpgrade", c.required_research,
                                  c.vertical_line, c.id)>>
    /\ ~DictHas(tech_groups, -1)

----------------------------------------------------------------------------
(* C23: the lines _link_garrison keeps out of a garrison *)

\* the garrisons a unit line is linked to, from either side of the link
GarrisonsOf(unit_line) ==
    SeqToSet(ListOf(garrison_locations, unit_line))
        \cup {g \in DOMAIN garrison_entities :
                  Contains(garrison_entities[g], unit_line)}

\* C23: no unit line of class 13, 51, 54 or 55 is linked to a garrison of mode
\* UNIT_GARRISON, and a unit line whose head unit has trait bit 0x02 (a ship) is
\* linked only to garrisons of mode SELF_PRODUCED whose creates hold the line.
GarrisonCarveOutsHold ==
    \A unit_line \in SeqToSet(DictValues(unit_lines)) :
        \A garrison \in GarrisonsOf(unit_line) :
            /\ ~(/\ GetClassId(line, unit_line) \in {13, 51, 54, 55}
                 /\ GetGarrisonMode(line, garrison) = "UNIT_GARRISON")
            /\ (GroupHeadUnit(line, unit_line).trait \div 2) % 2 = 1
                   => /\ GetGarrisonMode(line, garrison) = "SELF_PRODUCED"
                      /\ Contains(ListOf(creates, garrison), unit_line)

\* witness: line 5 is a siege ship and itself a unit garrison, the building
\* line 40 produces it; it is linked to the building line and not to itself
SiegeShipLinkedToItsProducerOnly ==
    /\ Contains(executed, "link_garrison")
    /\ genie_units[1].class_id = 13
    /\ genie_units[1].trait = 2
    /\ genie_units[1].garrison_mode = "UNIT_GARRISON"
    /\ genie_units[40].garrison_mode = "SELF_PRODUCED"
    /\ \E unit_line \in SeqToSet(DictValues(unit_lines)),
          garrison \in SeqToSet(DictValues(building_lines)) :
           /\ GroupHeadUnitId(line, unit_line) = 1
           /\ GroupHeadUnitId(line, garrison) = 40
           /\ GarrisonsOf(unit_line) = {garrison}
           /\ Contains(ListOf(garrison_entities, garrison), unit_line)
           /\ ListOf(garrison_entities, unit_line) # <<>>

----------------------------------------------------------------------------
(* C24: the resources _link_resources_to_dropsites registers *)

\* the member units of the villager variants
VariantMemberIds ==
    UNION {SeqToSet(line[villager_variants[i]]) : i \in DOMAIN villager_variants}

\* the resource of a drop or deposit command: resource_out, or resource_in
\* when resource_out is unset
ResourceOf(command) ==
    IF command.resource_out = -1 THEN command.resource_in
    ELSE command.resource_out

\* the resources the commands of kind 5 or 110 of the villagers with a drop
\* site reference to the building line line_id deposit
ResourcesDroppedAt(line_id) ==
    UNION {{ResourceOf(genie_units[u].unit_commands[i]) :
                i \in {j \in DOMAIN genie_units[u].unit_commands :
                           genie_units[u].unit_commands[j].type \in {5, 110}}} :
           u \in {v \in VariantMemberIds :
                     \/ genie_units[v].drop_site0 = line_id
                     \/ genie_units[v].drop_site1 = line_id}}

\* C24: when _link_resources_to_dropsites has returned, the resources accepted
\* by a building line are those of the commands of kind 5 or 110 of the
\* villager variants' member units that refer to the line by one of their two
\* drop sites, where the resource of a command is its resource_out, or its
\* resource_in when resource_out is -1; nothing else is registered anywhere.
DropsitesAcceptDepositedResources ==
    Returned("link_resources_to_dropsites") =>
        /\ \A i \in DOMAIN building_lines :
               SeqToSet(ListOf(accepts_resources, building_lines[i][2]))
                   = ResourcesDroppedAt(building_lines[i][1])
        /\ \A g \in DOMAIN accepts_resources :
               g \in SeqToSet(DictValues(building_lines))

\* witness: villager 83 deposits at the lines 40 and 42 with a command without
\* resource_out and has a command of another kind, villager 293 deposits at 42
TwoDropsitesAcceptInputResource ==
    /\ Returned("link_resources_to_dropsites")
    /\ genie_units[83].drop_site0 = 40
    /\ genie_units[83].drop_site1 = 42
    /\ genie_units[83].unit_commands =
           <<Command(110, 2, -1, -1), Command(7, 3, 3, -1)>>
    /\ ListOf(accepts_resources, DictGet(building_lines, 40)) = <<2>>
    /\ ListOf(accepts_resources, DictGet(building_lines, 42)) = <<2, 0>>

----------------------------------------------------------------------------
(* C25: the villager group left by _create_villager_groups *)

\* the units of a task group tag are members of the task group of line_id,
\* which is a variant of the villager group
TaskGroupHolds(tag, line_id) ==
    \A u \in DOMAIN genie_units :
        genie_units[u].task_group = tag =>
            /\ DictHas(task_groups, tag)
            /\ DictGet(task_groups, tag) = <<"TaskGroup", line_id>>
            /\ Contains(villager_variants, <<"TaskGroup", line_id>>)
            /\ Contains(line[<<"TaskGroup", line_id>>], u)

\* C25: when _create_villager_groups has just returned, villager_groups holds
\* one group, stored under the id 118; every unit of task group 1 is a member
\* of the male task group (line 83) and every unit of task group 2 of the
\* female task group (line 293); and unit_ref maps each of these units to the
\* villager group, also a unit that _create_unit_lines had referred to a line.
VillagerGroupHoldsTaskGroups ==
    pc = "create_ambient_groups" =>
        /\ Len(villager_groups) = 1
        /\ villager_groups[1][1] = 118
        /\ TaskGroupHolds(1, 83)
        /\ TaskGroupHolds(2, 293)
        /\ \A u \in DOMAIN genie_units :
               genie_units[u].task_group \in {1, 2} =>
                   /\ DictHas(unit_ref, u)
                   /\ DictGet(unit_ref, u) = villager_groups[1][2]

\* witness: unit 1 is of task group 1 and a member of a line of
\* _create_unit_lines, and is referred to the villager group; the units 83 and
\* 293 are in the male and the female task group
VillagerReferenceOverridesLine ==
    /\ pc = "create_ambient_groups"
    /\ genie_units[1].task_group = 1
    /\ \E i \in DOMAIN pre_unit_lines : Contains(line[pre_unit_lines[i][2]], 1)
    /\ DictGet(unit_ref, 1) = DictGet(villager_groups, 118)
    /\ Contains(line[<<"TaskGroup", 83>>], 1)
    /\ Contains(line[<<"TaskGroup", 83>>], 83)
    /\ Contains(line[<<"TaskGroup", 293>>], 293)

----------------------------------------------------------------------------
(* C26: the position of a building in its line, whatever the order of the
   building connections *)

\* the id at the first cross-reference tagged Building
FirstBuildingReference(connection) ==
    connection.other_connected_ids[
        CHOOSE i \in DOMAIN connection.other_connections :
            /\ connection.other_connections[i] = ConnBuilding
            /\ \A j \in DOMAIN connection.other_connections :
                   connection.other_connections[j] = ConnBuilding => i <= j]

\* the members of the building line a connection's building was put in
BuildingLineOf(connection) ==
    IF UpgradingReferences(connection) # {}
    THEN line[DictGet(building_lines, UpgradedLineId(connection))]
    ELSE line[DictGet(building_lines, connection.id)]

\* C26: when _create_building_lines has returned, every building placed through
\* an upgrade effect sits in its line behind the building its first
\* Building-tagged cross-reference names, and every building placed without
\* one is the head of its line, whatever the order of the building connections.
BuildingsFollowTheirPredecessor ==
    pc = "create_villager_groups" =>
        \A i \in DOMAIN building_connections :
            LET connection == building_connections[i]
                building_id == connection.id
                members == BuildingLineOf(connection)
            IN  genie_units[building_id].head_unit_id <= -1 =>
                    IF UpgradingReferences(connection) # {}
                    THEN /\ Contains(members, FirstBuildingReference(connection))
                         /\ IndexOf(members, FirstBuildingReference(connection))
                                < IndexOf(members, building_id)
                    ELSE members[1] = building_id

----------------------------------------------------------------------------
(* C27: unit_ref and the members of the groups *)

\* the units a group contains; the villager group contains those of its
\* variants
MembersOf(group) ==
    IF group[1] = "Villager" THEN VariantMemberIds
    ELSE IF group \in DOMAIN line THEN SeqToSet(line[group])
    ELSE {}

\* the groups stored as unit lines, building lines, ambient groups and
\* variant groups
StoredLineGroups ==
    SeqToSet(DictValues(unit_lines)) \cup SeqToSet(DictValues(building_lines))
        \cup SeqToSet(DictValues(ambient_groups))
        \cup SeqToSet(DictValues(variant_groups))

\* C27: after the builders and _link_building_upgrades, unit_ref maps every
\* unit id it holds to a group that contains the unit, and every unit that a
\* unit line, building line, ambient group or variant group contains is mapped
\* by unit_ref to that group.
UnitRefAgreesWithMembership ==
    AfterLinkBuildingUpgrades =>
        /\ \A i \in DOMAIN unit_ref :
               unit_ref[i][1] \in MembersOf(unit_ref[i][2])
        /\ \A group \in StoredLineGroups :
               \A unit_id \in MembersOf(group) :
                   /\ DictHas(unit_ref, unit_id)
                   /\ DictGet(unit_ref, unit_id) = group

============================================================================
